---- MODULE Spec2Model ----
(***************************************************************************)
(* Verification model of the KillrVideo data pipeline:                     *)
(*   - the referential-integrity validator                                 *)
(*       (data-generator/scripts/validate_data.py)                         *)
(*   - the typed CSV encoder (data-generator/src/csv_writer.py)            *)
(*   - the typed CSV decoder (loaders/oss-cassandra/load_with_python.py,   *)
(*       loaders/astra-tables/load_with_embeddings.py)                     *)
(*   - the field decoders of the other loaders                             *)
(*       (loaders/astra-collections/load_to_collections.py,                *)
(*        loaders/astra-tables/load_data_cql.py)                           *)
(*   - the resumable video collector                                       *)
(*       (data-generator/collect_cassandra_videos.py)                      *)
(*   - the components of the data generator (data-generator/src):          *)
(*       relationships.py, transcript_collector.py, ollama_client.py,      *)
(*       youtube_collector.py, embeddings.py, data_generator.py            *)
(* Texts are sequences of one-character strings, so that formatting and    *)
(* parsing are computed character by character as the code computes them.  *)
(***************************************************************************)
EXTENDS Integers, Sequences, FiniteSets, TLC

\* ------------------------------------------------------------------------
\* Generic helpers
\* ------------------------------------------------------------------------
Range(s) == {s[i] : i \in DOMAIN s}

SeqsUpTo(S, n) == UNION {[1..k -> S] : k \in 0..n}

\* ------------------------------------------------------------------------
\* State
\* ------------------------------------------------------------------------
\* validate_foreign_keys (validate_data.py)
VARIABLES
    files,        \* the output directory: file name -> absent, or present with rows
    vpc,          \* position of validate_foreign_keys
    user_ids,     \* set loaded from users.csv, column userid
    user_emails,  \* set loaded from users.csv, column email
    video_ids,    \* set loaded from videos.csv, column videoid
    errors,       \* defaultdict(list): table -> list of error entries
    result        \* "none" until the function returns "True" or "False"

vvars == <<files, vpc, user_ids, user_emails, video_ids, errors, result>>

\* one field through the encoder and the decoder
VARIABLES
    cval,    \* the value of the record's field
    ctype,   \* the column's declared type
    enc,     \* outcome of _format_value(cval, ctype)
    dec,     \* outcome of parse_csv_value(enc, ctype)
    cpc      \* "value" -> "encoded" -> "decoded"

cvars == <<cval, ctype, enc, dec, cpc>>

\* write_all_tables (csv_writer.py)
VARIABLES
    all_data,  \* the dict handed to write_all_tables: <<table, records>> pairs
    out,       \* the output directory: file (table) name -> lines written
    wlog,      \* the messages printed
    ti,        \* position of the `for table_name, data` loop
    ri,        \* position of the `for row in data` loop
    wpc        \* "tables", "rows", "done" or "raised"

wvars == <<all_data, out, wlog, ti, ri, wpc>>

\* one field of a CSV row through a loader (load_with_python.py,
\* load_with_embeddings.py, load_to_collections.py, load_data_cql.py)
VARIABLES
    lcol,    \* the column's name
    ldecl,   \* the type declared for the column, "none" without declaration
    lraw,    \* the field's text as csv.DictReader hands it over
    lpath,   \* the loader code that decoded the field, "none" before
    lres     \* the outcome: a value, an absent key or an exception

lvars == <<lcol, ldecl, lraw, lpath, lres>>

\* main of collect_cassandra_videos.py
VARIABLES
    filtered_videos,   \* the video ids to process, in order
    resume,            \* args.resume
    skip_transcripts,  \* args.skip_transcripts
    batch_size,        \* args.batch_size
    existing_ids,      \* ids found in the output directory at the start
    disk,              \* the output directory: video id -> the run that wrote the file
    collected_videos,  \* the videos collected by this run
    fetched,           \* the ids handed to get_transcript, in order
    skipped,           \* videos skipped so far
    batch_count,       \* videos processed since the last pause
    pauses,            \* the loop positions after which the run slept
    ki,                \* position of the loop over filtered_videos
    manifest,          \* the ids listed in _manifest.json, in order
    kpc                \* "idle", "loop", "manifest" or "done"

kvars == <<filtered_videos, resume, skip_transcripts, batch_size, existing_ids,
           disk, collected_videos, fetched, skipped, batch_count, pauses, ki,
           manifest, kpc>>

\* RelationshipTracker (relationships.py)
VARIABLES
    rt_users,              \* self.users
    rt_videos,             \* self.videos
    rt_comments,           \* self.comments
    rt_user_ids,           \* self.user_ids
    rt_user_emails,        \* self.user_emails
    rt_video_ids,          \* self.video_ids
    rt_video_by_user,      \* self.video_by_user
    rt_comments_by_video,  \* self.comments_by_video
    rt_comments_by_user,   \* self.comments_by_user
    rt_ret                 \* what the last call returned

rvars == <<rt_users, rt_videos, rt_comments, rt_user_ids, rt_user_emails,
           rt_video_ids, rt_video_by_user, rt_comments_by_video,
           rt_comments_by_user, rt_ret>>

\* TranscriptCollector (transcript_collector.py)
VARIABLES
    max_retries,         \* self.max_retries
    consecutive_errors,  \* self._consecutive_errors
    request_count,       \* self._request_count
    ip_blocked_count,    \* self._ip_blocked_count
    retry_count,         \* the retry_count of the running call of get_transcript
    tc_backoff,          \* the backoff that the last _rate_limit added to the delay
    tc_attempts,         \* the requests made for the video so far
    tc_all_blocked,      \* whether every request for the video was blocked
    tc_last,             \* the last request: what happened, and the counter before it
    tc_ret,              \* what get_transcript returned for the video
    tc_calls,            \* the videos handed to get_transcript so far
    tpc                  \* "idle", "running" or "returned"

tvars == <<max_retries, consecutive_errors, request_count, ip_blocked_count,
           retry_count, tc_backoff, tc_attempts, tc_all_blocked, tc_last,
           tc_ret, tc_calls, tpc>>

\* OllamaClient.generate (ollama_client.py)
VARIABLES
    attempt,     \* the loop variable of `for attempt in range(self.MAX_RETRIES)`
    last_error,  \* the exception kept for the final message, "None" before
    og_posts,    \* what happened to each requests.post so far, in order
    og_sleeps,   \* the seconds slept after each failed request
    og_ret,      \* what generate returned or raised
    opc          \* "idle", "loop" or "done"

ovars == <<attempt, last_error, og_posts, og_sleeps, og_ret, opc>>

\* YouTubeCollector.collect_all_videos (youtube_collector.py)
VARIABLES
    channel_id,      \* youtube_config.get('channel_id'), "None" when absent
    search_queries,  \* the number of search queries of the configuration
    max_videos,      \* youtube_config.get('max_videos', 500)
    all_videos,      \* the videos collected so far, in order
    video_ids_seen,  \* the video ids collected so far
    yi,              \* the queries that the loop has gone through
    yc_ran,          \* for each query that was run, len(all_videos) when it was run
    yc_ret,          \* what collect_all_videos returned
    ypc              \* "idle", "channel", "search" or "done"

yvars == <<channel_id, search_queries, max_videos, all_videos,
           video_ids_seen, yi, yc_ran, yc_ret, ypc>>

\* EmbeddingGenerator.generate_batch (embeddings.py)
VARIABLES
    eg_model,   \* self.model: "None" without sentence-transformers, else "model"
    eg_texts,   \* the list handed to generate_batch
    eg_raised,  \* whether self.model.encode raised
    eg_ret      \* what generate_batch returned

evars == <<eg_model, eg_texts, eg_raised, eg_ret>>

\* DataGenerator.generate_ratings (data_generator.py)
VARIABLES
    gr_videos,        \* the videos handed to generate_ratings
    gr_users,         \* the users handed to generate_ratings
    ratings_by_user,  \* the detail rows, in the order they were appended
    video_ratings,    \* the aggregate rows
    gu,               \* the users that the loop has gone through
    gpc               \* "idle", "users" or "done"

gvars == <<gr_videos, gr_users, ratings_by_user, video_ratings, gu, gpc>>

\* the components of the data generator
xvars == <<rvars, tvars, ovars, yvars, evars, gvars>>

\* for each component of the data generator, the other ones
rrest == <<tvars, ovars, yvars, evars, gvars>>
trest == <<rvars, ovars, yvars, evars, gvars>>
orest == <<rvars, tvars, yvars, evars, gvars>>
yrest == <<rvars, tvars, ovars, evars, gvars>>
erest == <<rvars, tvars, ovars, yvars, gvars>>
grest == <<rvars, tvars, ovars, yvars, evars>>

\* the validator, the codec, the writer, the loaders and the collector
pvars == <<vvars, cvars, wvars, lvars, kvars>>

vars == <<pvars, xvars>>

\* ========================================================================
\* PART 1 - validate_data.py : validate_foreign_keys
\* ========================================================================

\* Bound: total number of data rows over the dependent CSV files.
MaxRows == 2

UserIds == {"U1", "U2"}
VideoIds == {"V1", "V2"}
\* users.csv rows: each user has its own email
EmailOf(u) == IF u = "U1" THEN "E1" ELSE "E2"
Emails == {EmailOf(u) : u \in UserIds}

\* The dependent tables in the order the validator visits them, with the
\* foreign keys of each in the order they are tested.  Each foreign key is
\* <<column, referenced primary-key set, name printed in the message>>.
DependentTables ==
    <<"user_credentials", "videos", "comments", "comments_by_user",
      "video_ratings_by_user", "user_preferences">>

ForeignKeys(t) ==
    CASE t = "user_credentials" -> << <<"email", "user_emails", "users">>,
                                      <<"userid", "user_ids", "users">> >>
      [] t = "videos"           -> << <<"userid", "user_ids", "users">> >>
      [] t = "user_preferences" -> << <<"userid", "user_ids", "users">> >>
      [] OTHER                  -> << <<"videoid", "video_ids", "videos">>,
                                      <<"userid", "user_ids", "users">> >>

\* Rows a dependent file can hold (csv.DictReader: column name -> text)
RowsOf(t) ==
    CASE t = "user_credentials" -> [email : Emails, userid : UserIds]
      [] t = "videos"           -> [videoid : VideoIds, userid : UserIds]
      [] t = "user_preferences" -> [userid : UserIds]
      [] OTHER                  -> [videoid : VideoIds, userid : UserIds]

\* load_csv_ids(filepath, id_column): the set of the column's values
load_csv_ids(rows, id_column) == {r[id_column] : r \in rows}

RefSet(name) ==
    CASE name = "user_ids"    -> user_ids
      [] name = "user_emails" -> user_emails
      [] OTHER                -> video_ids

\* Mutant: stops at the first broken key of a row (elif instead of if).
RECURSIVE RowErrorsFirstOnly(_, _, _, _)
RowErrorsFirstOnly(i, row, fks, k) ==
    IF k > Len(fks) THEN <<>>
    ELSE LET fk == fks[k]
         IN IF row[fk[1]] \notin RefSet(fk[2])
            THEN << [row |-> i, col |-> fk[1],
                     value |-> row[fk[1]], ref |-> fk[3]] >>
            ELSE RowErrorsFirstOnly(i, row, fks, k + 1)

\* One row of a dependent table: one entry per broken foreign key, in the
\* order of the `if` statements (both are tested: `if`, not `elif`).
RECURSIVE RowErrors(_, _, _, _)
RowErrors(i, row, fks, k) ==
    IF k > Len(fks) THEN <<>>
    ELSE LET fk == fks[k]
             here == IF row[fk[1]] \notin RefSet(fk[2])
                     THEN << [row |-> i, col |-> fk[1],
                              value |-> row[fk[1]], ref |-> fk[3]] >>
                     ELSE <<>>
         IN here \o RowErrors(i, row, fks, k + 1)

\* for i, row in enumerate(reader): ... (row indices start at 0)
RECURSIVE TableErrors(_, _, _)
TableErrors(rows, fks, n) ==
    IF n > Len(rows) THEN <<>>
    ELSE RowErrors(n - 1, rows[n], fks, 1) \o TableErrors(rows, fks, n + 1)

\* errors[t] on a defaultdict: reading creates the key with an empty list.
DictGet(d, t) == IF t \in DOMAIN d THEN d[t] ELSE <<>>
DictSet(d, t, v) == [k \in DOMAIN d \cup {t} |-> IF k = t THEN v ELSE d[k]]

\* A file of the directory: absent, or present with its data rows.
Missing == [exists |-> FALSE, rows |-> <<>>]
Present(rows) == [exists |-> TRUE, rows |-> rows]

UsersFiles ==
    {Missing} \cup
    {Present(s) : s \in {<<>>,
                         <<[userid |-> "U1", email |-> "E1"]>>,
                         <<[userid |-> "U2", email |-> "E2"]>>,
                         <<[userid |-> "U1", email |-> "E1"],
                           [userid |-> "U2", email |-> "E2"]>>}}

\* The contents a dependent file can have with at most n rows
FilesOf(t, n) == {Missing} \cup {Present(s) : s \in SeqsUpTo(RowsOf(t), n)}

VInit ==
    /\ \E u \in UsersFiles :
       \E f1 \in FilesOf(DependentTables[1], MaxRows) :
       \E f2 \in FilesOf(DependentTables[2], MaxRows - Len(f1.rows)) :
       \E f3 \in FilesOf(DependentTables[3],
                          MaxRows - Len(f1.rows) - Len(f2.rows)) :
       \E f4 \in FilesOf(DependentTables[4],
                          MaxRows - Len(f1.rows) - Len(f2.rows) - Len(f3.rows)) :
       \E f5 \in FilesOf(DependentTables[5],
                          MaxRows - Len(f1.rows) - Len(f2.rows) - Len(f3.rows)
                                  - Len(f4.rows)) :
       \E f6 \in FilesOf(DependentTables[6],
                          MaxRows - Len(f1.rows) - Len(f2.rows) - Len(f3.rows)
                                  - Len(f4.rows) - Len(f5.rows)) :
          files = [t \in {"users"} \cup Range(DependentTables) |->
                     CASE t = "users" -> u
                       [] t = DependentTables[1] -> f1
                       [] t = DependentTables[2] -> f2
                       [] t = DependentTables[3] -> f3
                       [] t = DependentTables[4] -> f4
                       [] t = DependentTables[5] -> f5
                       [] OTHER -> f6]
    /\ vpc = "load_primary_keys"
    /\ user_ids = {}
    /\ user_emails = {}
    /\ video_ids = {}
    /\ errors = <<>>
    /\ result = "none"

\* Lines 32-54: load the three primary-key sets; a missing file returns False.
LoadPrimaryKeys ==
    /\ vpc = "load_primary_keys"
    /\ IF ~files["users"].exists
       THEN /\ result' = "False"
            /\ vpc' = "done"
            /\ UNCHANGED <<user_ids, user_emails, video_ids>>
       ELSE /\ user_ids' = load_csv_ids(Range(files["users"].rows), "userid")
            /\ user_emails' = load_csv_ids(Range(files["users"].rows), "email")
            /\ IF ~files["videos"].exists
               THEN /\ result' = "False"
                    /\ vpc' = "done"
                    /\ UNCHANGED video_ids
               ELSE /\ video_ids' = load_csv_ids(Range(files["videos"].rows), "videoid")
                    /\ vpc' = DependentTables[1]
                    /\ UNCHANGED result
    /\ UNCHANGED <<files, errors, cvars, wvars, lvars, kvars>>
    /\ UNCHANGED xvars

NextPc(t) ==
    LET i == CHOOSE j \in DOMAIN DependentTables : DependentTables[j] = t
    IN IF i = Len(DependentTables) THEN "summary" ELSE DependentTables[i + 1]

\* One `try: with open(...)` block.  A missing file only prints a warning.
\* Otherwise every row is checked, and the `if errors[t]:` of the report
\* reads the defaultdict, which creates the key.
ValidateTable(t) ==
    /\ vpc = t
    /\ IF ~files[t].exists
       THEN UNCHANGED errors
       ELSE errors' = DictSet(errors, t,
                        DictGet(errors, t) \o TableErrors(files[t].rows, ForeignKeys(t), 1))
    /\ vpc' = NextPc(t)
    /\ UNCHANGED <<files, user_ids, user_emails, video_ids, result, cvars, wvars, lvars, kvars>>
    /\ UNCHANGED xvars

ValidateUserCredentials == ValidateTable("user_credentials")
ValidateVideos == ValidateTable("videos")
ValidateComments == ValidateTable("comments")
ValidateCommentsByUser == ValidateTable("comments_by_user")
ValidateVideoRatingsByUser == ValidateTable("video_ratings_by_user")
ValidateUserPreferences == ValidateTable("user_preferences")

\* Lines 160-178: `if errors:` is the truth value of the dict, i.e. whether
\* it has any key.
Summary ==
    /\ vpc = "summary"
    /\ result' = (IF DOMAIN errors # {} THEN "False" ELSE "True")
    /\ vpc' = "done"
    /\ UNCHANGED <<files, user_ids, user_emails, video_ids, errors, cvars, wvars, lvars, kvars>>
    /\ UNCHANGED xvars

VNext ==
    \/ LoadPrimaryKeys
    \/ ValidateUserCredentials
    \/ ValidateVideos
    \/ ValidateComments
    \/ ValidateCommentsByUser
    \/ ValidateVideoRatingsByUser
    \/ ValidateUserPreferences
    \/ Summary

\* ========================================================================
\* PART 2 - texts, Python values and their conversions
\* ========================================================================

\* A text is a sequence of one-character strings.
DQ == "\""
SQ == "'"
BSL == "\\"
NL == "\n"
CR == "\r"
TAB == "\t"
SP == " "

DigitChars == <<"0", "1", "2", "3", "4", "5", "6", "7", "8", "9">>
LowerChars == <<"a", "b", "c", "d", "e", "f", "g", "h", "i", "j", "k", "l", "m",
                "n", "o", "p", "q", "r", "s", "t", "u", "v", "w", "x", "y", "z">>
UpperChars == <<"A", "B", "C", "D", "E", "F", "G", "H", "I", "J", "K", "L", "M",
                "N", "O", "P", "Q", "R", "S", "T", "U", "V", "W", "X", "Y", "Z">>

IsDigit(c) == c \in Range(DigitChars)
DigitVal(c) == (CHOOSE i \in DOMAIN DigitChars : DigitChars[i] = c) - 1
IsHex(c) == IsDigit(c) \/ c \in {"a", "b", "c", "d", "e", "f"}
                       \/ c \in {"A", "B", "C", "D", "E", "F"}

\* str.lower() on one character, and on a text
LowerChar(c) ==
    IF c \in Range(UpperChars)
    THEN LowerChars[CHOOSE i \in DOMAIN UpperChars : UpperChars[i] = c]
    ELSE c
Lower(t) == [i \in DOMAIN t |-> LowerChar(t[i])]

\* Python whitespace as far as the texts of the model contain it
IsSpace(c) == c \in {SP, NL, CR, TAB}

RECURSIVE LStrip(_, _)
LStrip(t, S) == IF t # <<>> /\ Head(t) \in S THEN LStrip(Tail(t), S) ELSE t
RECURSIVE RStrip(_, _)
RStrip(t, S) ==
    IF t # <<>> /\ t[Len(t)] \in S THEN RStrip(SubSeq(t, 1, Len(t) - 1), S) ELSE t
\* str.strip() and str.strip(chars)
Strip(t) == RStrip(LStrip(t, {SP, NL, CR, TAB}), {SP, NL, CR, TAB})
StripChars(t, S) == RStrip(LStrip(t, S), S)

\* str.replace(old, new) for a one-character old
RECURSIVE ReplaceChar(_, _, _)
ReplaceChar(t, old, new) ==
    IF t = <<>> THEN <<>>
    ELSE (IF Head(t) = old THEN new ELSE <<Head(t)>>) \o ReplaceChar(Tail(t), old, new)

\* sep.join(parts)
RECURSIVE Join(_, _)
Join(parts, sep) ==
    IF parts = <<>> THEN <<>>
    ELSE IF Len(parts) = 1 THEN parts[1]
    ELSE LET h == Len(parts) \div 2
         IN Join(SubSeq(parts, 1, h), sep) \o sep
            \o Join(SubSeq(parts, h + 1, Len(parts)), sep)

\* Index of the first occurrence of character c in t, 0 when absent
RECURSIVE FindChar(_, _, _)
FindChar(t, c, i) ==
    IF i > Len(t) THEN 0 ELSE IF t[i] = c THEN i ELSE FindChar(t, c, i + 1)

\* ---- decimal numbers ---------------------------------------------------
RECURSIVE NatToText(_)
NatToText(n) ==
    IF n < 10 THEN <<DigitChars[n + 1]>>
    ELSE NatToText(n \div 10) \o <<DigitChars[(n % 10) + 1]>>

\* str(n) for an int
IntToText(n) == IF n < 0 THEN <<"-">> \o NatToText(-n) ELSE NatToText(n)

Abs(n) == IF n < 0 THEN -n ELSE n

RECURSIVE Pow10(_)
Pow10(e) == IF e = 0 THEN 1 ELSE 10 * Pow10(e - 1)

\* n written with at least w digits (strftime's zero padding)
RECURSIVE Pad(_, _)
Pad(n, w) == IF w <= 1 THEN NatToText(n)
             ELSE IF n < Pow10(w - 1) THEN <<"0">> \o Pad(n, w - 1)
             ELSE NatToText(n)

RECURSIVE DigitsToNat(_, _)
DigitsToNat(t, acc) ==
    IF t = <<>> THEN acc ELSE DigitsToNat(Tail(t), 10 * acc + DigitVal(Head(t)))

AllDigits(t) == t # <<>> /\ \A i \in DOMAIN t : IsDigit(t[i])

\* A float is the decimal m / 10^e with m not divisible by 10 unless e = 0:
\* the value that repr() prints and float() reads back.
RECURSIVE NormFloat(_, _)
NormFloat(m, e) ==
    IF e > 0 /\ m % 10 = 0 THEN NormFloat(m \div 10, e - 1)
    ELSE [k |-> "float", m |-> m, e |-> e]

PyNone == [k |-> "None"]
PyBool(b) == [k |-> "bool", b |-> b]
PyInt(n) == [k |-> "int", n |-> n]
PyFloat(m, e) == NormFloat(m, e)
PyStr(s) == [k |-> "str", s |-> s]
PyList(items) == [k |-> "list", items |-> items]
PyTuple(items) == [k |-> "tuple", items |-> items]
\* a set with its iteration order; a dict with its insertion order
PySet(items) == [k |-> "set", items |-> items]
PyDict(pairs) == [k |-> "dict", pairs |-> pairs]
PyUUID(hex) == [k |-> "UUID", hex |-> hex]
PyDate(y, mo, d) == [k |-> "date", y |-> y, mo |-> mo, d |-> d]
PyDatetime(y, mo, d, h, mi, sec, us) ==
    [k |-> "datetime", y |-> y, mo |-> mo, d |-> d, h |-> h, mi |-> mi,
     sec |-> sec, us |-> us]

\* The outcome of a call: a returned value or a raised exception
Ret(v) == [ok |-> TRUE, v |-> v]
Raise(exc) == [ok |-> FALSE, exc |-> exc]

\* repr(x) for a float: at least one fractional digit
FloatToText(f) ==
    LET a == Abs(f.m)
        sign == IF f.m < 0 THEN <<"-">> ELSE <<>>
    IN IF f.e = 0 THEN sign \o NatToText(a) \o <<".", "0">>
       ELSE sign \o NatToText(a \div Pow10(f.e)) \o <<".">>
                 \o Pad(a % Pow10(f.e), f.e)

\* int(text): optional surrounding blanks, optional sign, digits
ParseInt(text) ==
    LET t == Strip(text)
        signed == t # <<>> /\ Head(t) \in {"-", "+"}
        ds == IF signed THEN Tail(t) ELSE t
    IN IF AllDigits(ds)
       THEN Ret(PyInt(IF signed /\ Head(t) = "-" THEN -DigitsToNat(ds, 0)
                      ELSE DigitsToNat(ds, 0)))
       ELSE Raise("ValueError")

\* float(text): optional blanks and sign, digits with at most one point and
\* at least one digit (exponent forms and inf/nan are outside the model's texts)
ParseFloat(text) ==
    LET t == Strip(text)
        signed == t # <<>> /\ Head(t) \in {"-", "+"}
        ds == IF signed THEN Tail(t) ELSE t
        p == FindChar(ds, ".", 1)
        ip == IF p = 0 THEN ds ELSE SubSeq(ds, 1, p - 1)
        fp == IF p = 0 THEN <<>> ELSE SubSeq(ds, p + 1, Len(ds))
        wellFormed == /\ \A i \in DOMAIN ip : IsDigit(ip[i])
                      /\ \A i \in DOMAIN fp : IsDigit(fp[i])
                      /\ Len(ip) + Len(fp) > 0
        mag == DigitsToNat(ip \o fp, 0)
    IN IF wellFormed
       THEN Ret(PyFloat(IF signed /\ Head(t) = "-" THEN -mag ELSE mag, Len(fp)))
       ELSE Raise("ValueError")

\* ---- str(), repr(), bool(), int(), float() of a Python value ------------

\* str(uuid): lower-case hex in groups of 8-4-4-4-12
UUIDToText(hex) ==
    SubSeq(hex, 1, 8) \o <<"-">> \o SubSeq(hex, 9, 12) \o <<"-">>
    \o SubSeq(hex, 13, 16) \o <<"-">> \o SubSeq(hex, 17, 20) \o <<"-">>
    \o SubSeq(hex, 21, 32)

\* repr() of a str: single quotes unless the text has a single quote and no
\* double quote; backslash, the chosen quote and control characters escaped
RECURSIVE ReprEscape(_, _)
ReprEscape(t, q) ==
    IF t = <<>> THEN <<>>
    ELSE LET c == Head(t)
             e == CASE c = BSL -> <<BSL, BSL>>
                    [] c = NL  -> <<BSL, "n">>
                    [] c = CR  -> <<BSL, "r">>
                    [] c = TAB -> <<BSL, "t">>
                    [] c = q   -> <<BSL, q>>
                    [] OTHER   -> <<c>>
         IN e \o ReprEscape(Tail(t), q)

StrRepr(t) ==
    LET q == IF SQ \in Range(t) /\ DQ \notin Range(t) THEN DQ ELSE SQ
    IN <<q>> \o ReprEscape(t, q) \o <<q>>

DateToText(v) == Pad(v.y, 4) \o <<"-">> \o Pad(v.mo, 2) \o <<"-">> \o Pad(v.d, 2)
ClockToText(v) == Pad(v.h, 2) \o <<":">> \o Pad(v.mi, 2) \o <<":">> \o Pad(v.sec, 2)

RECURSIVE PyReprOf(_)
PyReprOf(v) ==
    CASE v.k = "None"  -> <<"N", "o", "n", "e">>
      [] v.k = "bool"  -> IF v.b THEN <<"T", "r", "u", "e">>
                          ELSE <<"F", "a", "l", "s", "e">>
      [] v.k = "int"   -> IntToText(v.n)
      [] v.k = "float" -> FloatToText(v)
      [] v.k = "str"   -> StrRepr(v.s)
      [] v.k = "UUID"  -> <<"U", "U", "I", "D", "(", SQ>> \o UUIDToText(v.hex)
                          \o <<SQ, ")">>
      [] v.k = "date"  ->
            <<"d", "a", "t", "e", "t", "i", "m", "e", ".", "d", "a", "t", "e", "(">>
            \o Join(<<IntToText(v.y), IntToText(v.mo), IntToText(v.d)>>, <<",", SP>>)
            \o <<")">>
      [] v.k = "datetime" ->
            <<"d", "a", "t", "e", "t", "i", "m", "e", ".",
              "d", "a", "t", "e", "t", "i", "m", "e", "(">>
            \o Join(<<IntToText(v.y), IntToText(v.mo), IntToText(v.d),
                      IntToText(v.h), IntToText(v.mi)>>
                    \o (IF v.sec # 0 \/ v.us # 0 THEN <<IntToText(v.sec)>> ELSE <<>>)
                    \o (IF v.us # 0 THEN <<IntToText(v.us)>> ELSE <<>>),
                    <<",", SP>>)
            \o <<")">>
      [] v.k = "list"  ->
            <<"[">> \o Join([i \in DOMAIN v.items |-> PyReprOf(v.items[i])], <<",", SP>>)
            \o <<"]">>
      [] v.k = "tuple" ->
            <<"(">> \o Join([i \in DOMAIN v.items |-> PyReprOf(v.items[i])], <<",", SP>>)
            \o (IF Len(v.items) = 1 THEN <<",">> ELSE <<>>) \o <<")">>
      [] v.k = "set"   ->
            IF v.items = <<>> THEN <<"s", "e", "t", "(", ")">>
            ELSE <<"{">>
                 \o Join([i \in DOMAIN v.items |-> PyReprOf(v.items[i])], <<",", SP>>)
                 \o <<"}">>
      [] v.k = "dict"  ->
            <<"{">>
            \o Join([i \in DOMAIN v.pairs |->
                        PyReprOf(v.pairs[i][1]) \o <<":", SP>> \o PyReprOf(v.pairs[i][2])],
                    <<",", SP>>)
            \o <<"}">>

\* str(value)
PyStrOf(v) ==
    CASE v.k = "str"  -> v.s
      [] v.k = "UUID" -> UUIDToText(v.hex)
      [] v.k = "date" -> DateToText(v)
      [] v.k = "datetime" ->
            DateToText(v) \o <<SP>> \o ClockToText(v)
            \o (IF v.us # 0 THEN <<".">> \o Pad(v.us, 6) ELSE <<>>)
      [] OTHER -> PyReprOf(v)

\* Truth value of a Python value (`if value`)
Truthy(v) ==
    CASE v.k = "None"  -> FALSE
      [] v.k = "bool"  -> v.b
      [] v.k = "int"   -> v.n # 0
      [] v.k = "float" -> v.m # 0
      [] v.k = "str"   -> v.s # <<>>
      [] v.k \in {"list", "tuple", "set"} -> v.items # <<>>
      [] v.k = "dict"  -> v.pairs # <<>>
      [] OTHER -> TRUE

\* float(value)
PyFloatOf(v) ==
    CASE v.k = "float" -> Ret(v)
      [] v.k = "int"   -> Ret(PyFloat(v.n, 0))
      [] v.k = "bool"  -> Ret(PyFloat(IF v.b THEN 1 ELSE 0, 0))
      [] v.k = "str"   -> ParseFloat(v.s)
      [] OTHER -> Raise("TypeError")

\* int(value): a float is truncated towards zero
PyIntOf(v) ==
    CASE v.k = "int"   -> Ret(v)
      [] v.k = "bool"  -> Ret(PyInt(IF v.b THEN 1 ELSE 0))
      [] v.k = "float" -> Ret(PyInt(IF v.m < 0 THEN -((-v.m) \div Pow10(v.e))
                                    ELSE v.m \div Pow10(v.e)))
      [] v.k = "str"   -> ParseInt(v.s)
      [] OTHER -> Raise("TypeError")

\* ---- json.dumps ----------------------------------------------------------
RECURSIVE JsonEscape(_)
JsonEscape(t) ==
    IF t = <<>> THEN <<>>
    ELSE LET c == Head(t)
             e == CASE c = DQ  -> <<BSL, DQ>>
                    [] c = BSL -> <<BSL, BSL>>
                    [] c = NL  -> <<BSL, "n">>
                    [] c = CR  -> <<BSL, "r">>
                    [] c = TAB -> <<BSL, "t">>
                    [] OTHER   -> <<c>>
         IN e \o JsonEscape(Tail(t))

JsonString(t) == <<DQ>> \o JsonEscape(t) \o <<DQ>>

\* Whether json.dumps accepts the value (otherwise it raises TypeError)
RECURSIVE JsonSerializable(_)
JsonSerializable(v) ==
    CASE v.k \in {"None", "bool", "int", "float", "str"} -> TRUE
      [] v.k \in {"list", "tuple"} -> \A i \in DOMAIN v.items : JsonSerializable(v.items[i])
      [] v.k = "dict" -> \A i \in DOMAIN v.pairs :
                            /\ v.pairs[i][1].k \in {"None", "bool", "int", "float", "str"}
                            /\ JsonSerializable(v.pairs[i][2])
      [] OTHER -> FALSE

\* A dict key as json.dumps writes it
JsonKey(kv) ==
    CASE kv.k = "str"  -> JsonString(kv.s)
      [] kv.k = "None" -> JsonString(<<"n", "u", "l", "l">>)
      [] kv.k = "bool" -> JsonString(IF kv.b THEN <<"t", "r", "u", "e">>
                                     ELSE <<"f", "a", "l", "s", "e">>)
      [] OTHER         -> JsonString(PyReprOf(kv))

\* json.dumps(v) with the default separators ", " and ": "
RECURSIVE JsonText(_)
JsonText(v) ==
    CASE v.k = "None"  -> <<"n", "u", "l", "l">>
      [] v.k = "bool"  -> IF v.b THEN <<"t", "r", "u", "e">>
                          ELSE <<"f", "a", "l", "s", "e">>
      [] v.k = "int"   -> IntToText(v.n)
      [] v.k = "float" -> FloatToText(v)
      [] v.k = "str"   -> JsonString(v.s)
      [] v.k \in {"list", "tuple"} ->
            <<"[">> \o Join([i \in DOMAIN v.items |-> JsonText(v.items[i])], <<",", SP>>)
            \o <<"]">>
      [] v.k = "dict"  ->
            <<"{">>
            \o Join([i \in DOMAIN v.pairs |->
                        JsonKey(v.pairs[i][1]) \o <<":", SP>> \o JsonText(v.pairs[i][2])],
                    <<",", SP>>)
            \o <<"}">>

json_dumps(v) == IF JsonSerializable(v) THEN Ret(JsonText(v)) ELSE Raise("TypeError")

\* ========================================================================
\* PART 3 - csv_writer.py : CSVWriter._format_value
\* ========================================================================

\* col_type.startswith('set<') / 'map<' / 'vector<' over the declared types
SetTypes == {"set<text>"}
MapTypes == {"map<text,float>", "map<text,text>"}
VectorTypes == {"vector<float,384>"}
ColumnTypes ==
    {"uuid", "timeuuid", "timestamp", "date", "boolean", "int", "float",
     "double", "counter", "text"} \cup SetTypes \cup MapTypes \cup VectorTypes

\* One pass of text.replace('  ', ' '): non-overlapping pairs, left to right
RECURSIVE ReplaceDoubleSpace(_)
ReplaceDoubleSpace(t) ==
    IF Len(t) < 2 THEN t
    ELSE IF t[1] = SP /\ t[2] = SP THEN <<SP>> \o ReplaceDoubleSpace(Tail(Tail(t)))
    ELSE <<Head(t)>> \o ReplaceDoubleSpace(Tail(t))

HasDoubleSpace(t) == \E i \in 1..(Len(t) - 1) : t[i] = SP /\ t[i + 1] = SP

\* while '  ' in text: text = text.replace('  ', ' ')
RECURSIVE CollapseSpaces(_)
CollapseSpaces(t) ==
    IF HasDoubleSpace(t) THEN CollapseSpaces(ReplaceDoubleSpace(t)) ELSE t

\* Mutant: the double spaces replaced in one pass, without the loop
NormalizeTextOnePass(t) ==
    LET t1 == ReplaceChar(ReplaceChar(ReplaceChar(t, NL, <<SP>>), CR, <<SP>>),
                          TAB, <<SP>>)
        t2 == ReplaceChar(t1, DQ, <<SQ>>)
    IN Strip(ReplaceDoubleSpace(t2))

\* Lines 145-154: the text normalisation
NormalizeText(t) ==
    LET t1 == ReplaceChar(ReplaceChar(ReplaceChar(t, NL, <<SP>>), CR, <<SP>>),
                          TAB, <<SP>>)
        t2 == ReplaceChar(t1, DQ, <<SQ>>)
    IN Strip(CollapseSpaces(t2))

\* value.strftime('%Y-%m-%dT%H:%M:%S.%f')[:-3] + 'Z'
TimestampToText(v) ==
    DateToText(v) \o <<"T">> \o ClockToText(v) \o <<".">>
    \o Pad(v.us \div 1000, 3) \o <<"Z">>

\* Mutant: the numbers joined by a bare comma
VectorToTextCompact(items) ==
    IF \E i \in DOMAIN items : ~PyFloatOf(items[i]).ok
    THEN Raise("ValueError")
    ELSE Ret(<<"[">>
             \o Join([i \in DOMAIN items |-> FloatToText(PyFloatOf(items[i]).v)],
                     <<",">>)
             \o <<"]">>)

\* '[' + ', '.join(str(float(v)) for v in value) + ']'
VectorToText(items) ==
    IF \E i \in DOMAIN items : ~PyFloatOf(items[i]).ok
    THEN Raise((PyFloatOf(items[CHOOSE i \in DOMAIN items :
                                   /\ ~PyFloatOf(items[i]).ok
                                   /\ \A j \in 1..(i - 1) : PyFloatOf(items[j]).ok])).exc)
    ELSE Ret(<<"[">>
             \o Join([i \in DOMAIN items |-> FloatToText(PyFloatOf(items[i]).v)],
                     <<",", SP>>)
             \o <<"]">>)

\* Lines 108-115, the set branch
FormatSet(value) ==
    IF value.k \in {"set", "list"}
    THEN IF value.items = <<>> THEN Ret(<<"[", "]">>)
         ELSE json_dumps(PyList(value.items))
    ELSE Ret(<<"[", "]">>)

\* Lines 117-124, the map branch
FormatMap(value) ==
    IF value.k = "dict"
    THEN IF value.pairs = <<>> THEN Ret(<<"{", "}">>)
         ELSE json_dumps(value)
    ELSE Ret(<<"{", "}">>)

\* Lines 70-154.  Returns Ret(text) or the exception a conversion raises.
_format_value(value, col_type) ==
    IF value.k = "None" THEN Ret(<<>>)
    ELSE CASE col_type = "timestamp" ->
                IF value.k = "datetime" THEN Ret(TimestampToText(value))
                ELSE IF value.k = "str" THEN Ret(value.s)
                ELSE Ret(<<>>)
           [] col_type = "date" ->
                IF value.k \in {"date", "datetime"} THEN Ret(DateToText(value))
                ELSE Ret(PyStrOf(value))
           [] col_type \in {"uuid", "timeuuid"} -> Ret(PyStrOf(value))
           [] col_type = "boolean" ->
                Ret(IF Truthy(value) THEN <<"t", "r", "u", "e">>
                    ELSE <<"f", "a", "l", "s", "e">>)
           [] col_type \in SetTypes -> FormatSet(value)
           [] col_type \in MapTypes -> FormatMap(value)
           [] col_type \in VectorTypes ->
                IF value.k \in {"list", "tuple"} THEN VectorToText(value.items)
                ELSE Ret(<<>>)
           [] col_type = "counter" -> Ret(PyStrOf(value))
           [] col_type \in {"float", "double"} ->
                IF PyFloatOf(value).ok THEN Ret(FloatToText(PyFloatOf(value).v))
                ELSE PyFloatOf(value)
           [] col_type = "int" ->
                IF PyIntOf(value).ok THEN Ret(IntToText(PyIntOf(value).v.n))
                ELSE PyIntOf(value)
           [] OTHER -> Ret(NormalizeText(PyStrOf(value)))

\* ========================================================================
\* PART 4 - load_with_python.py : CassandraLoader.parse_csv_value
\*          (load_with_embeddings.py : AstraTableLoader.parse_csv_value is
\*           the same code)
\* ========================================================================

IsPrefixAt(t, old, i) ==
    /\ i + Len(old) - 1 <= Len(t)
    /\ \A j \in DOMAIN old : t[i + j - 1] = old[j]

\* str.replace(old, new): non-overlapping occurrences, left to right
RECURSIVE ReplaceSub(_, _, _)
ReplaceSub(t, old, new) ==
    IF t = <<>> THEN <<>>
    ELSE IF IsPrefixAt(t, old, 1)
         THEN new \o ReplaceSub(SubSeq(t, Len(old) + 1, Len(t)), old, new)
         ELSE <<Head(t)>> \o ReplaceSub(Tail(t), old, new)

\* Digits of int(text, 16): blanks stripped, optional sign and 0x prefix,
\* single underscores between digits.  <<>> stands for "not a number".
HexDigitsOf(text) ==
    LET t == Strip(text)
        signed == t # <<>> /\ Head(t) \in {"-", "+"}
        u == IF signed THEN Tail(t) ELSE t
        prefixed == Len(u) >= 2 /\ u[1] = "0" /\ u[2] \in {"x", "X"}
        w == IF prefixed THEN SubSeq(u, 3, Len(u)) ELSE u
        \* an underscore may follow the prefix and separate two digits
        x == IF prefixed /\ w # <<>> /\ Head(w) = "_" THEN Tail(w) ELSE w
        wellFormed ==
            /\ x # <<>>
            /\ \A i \in DOMAIN x : IsHex(x[i]) \/ x[i] = "_"
            /\ IsHex(x[1]) /\ IsHex(x[Len(x)])
            /\ \A i \in 1..(Len(x) - 1) : ~(x[i] = "_" /\ x[i + 1] = "_")
    IN IF wellFormed
       THEN [ok |-> TRUE, neg |-> signed /\ Head(t) = "-",
             digits |-> Lower(SelectSeq(x, IsHex))]
       ELSE [ok |-> FALSE, neg |-> FALSE, digits |-> <<>>]

RECURSIVE ZeroFill(_, _)
ZeroFill(t, w) == IF Len(t) >= w THEN t ELSE ZeroFill(<<"0">> \o t, w)

\* uuid.UUID(value)
ParseUUID(value) ==
    LET h1 == ReplaceSub(ReplaceSub(value, <<"u", "r", "n", ":">>, <<>>),
                         <<"u", "u", "i", "d", ":">>, <<>>)
        h2 == ReplaceChar(StripChars(h1, {"{", "}"}), "-", <<>>)
        n == HexDigitsOf(h2)
    IN IF Len(h2) # 32 THEN Raise("ValueError")
       ELSE IF ~n.ok THEN Raise("ValueError")
       ELSE IF n.neg /\ \E i \in DOMAIN n.digits : n.digits[i] # "0"
            THEN Raise("ValueError")
       ELSE Ret(PyUUID(ZeroFill(n.digits, 32)))

\* ---- datetime.fromisoformat ------------------------------------------
IsLeap(y) == (y % 4 = 0 /\ y % 100 # 0) \/ y % 400 = 0
DaysInMonth(y, mo) ==
    IF mo = 2 THEN (IF IsLeap(y) THEN 29 ELSE 28)
    ELSE IF mo \in {4, 6, 9, 11} THEN 30 ELSE 31

DigitsAt(t, i, n) ==
    /\ i + n - 1 <= Len(t)
    /\ \A j \in i..(i + n - 1) : IsDigit(t[j])
NumAt(t, i, n) == DigitsToNat(SubSeq(t, i, i + n - 1), 0)

\* HH[:MM[:SS[.fff[fff]]]] : <<ok, h, mi, sec, us>>
ParseClock(t) ==
    LET n == Len(t)
        okH == DigitsAt(t, 1, 2)
        okM == n >= 5 /\ t[3] = ":" /\ DigitsAt(t, 4, 2)
        okS == n >= 8 /\ t[6] = ":" /\ DigitsAt(t, 7, 2)
        ok3 == n = 12 /\ t[9] = "." /\ DigitsAt(t, 10, 3)
        ok6 == n = 15 /\ t[9] = "." /\ DigitsAt(t, 10, 6)
        shape == \/ (n = 2 /\ okH)
                 \/ (n = 5 /\ okH /\ okM)
                 \/ (n = 8 /\ okH /\ okM /\ okS)
                 \/ (okH /\ okM /\ okS /\ (ok3 \/ ok6))
        h == IF okH THEN NumAt(t, 1, 2) ELSE 0
        mi == IF n >= 5 /\ okM THEN NumAt(t, 4, 2) ELSE 0
        sec == IF n >= 8 /\ okS THEN NumAt(t, 7, 2) ELSE 0
        us == IF ok3 THEN NumAt(t, 10, 3) * 1000
              ELSE IF ok6 THEN NumAt(t, 10, 6) ELSE 0
    IN <<shape /\ h < 24 /\ mi < 60 /\ sec < 60, h, mi, sec, us>>

\* datetime.fromisoformat(text): YYYY-MM-DD[*HH[:MM[:SS[.fff[fff]]]][+HH:MM]]
\* (the grammar of Python 3.7 to 3.10); an offset makes the value aware.
FromIsoFormat(t) ==
    LET n == Len(t)
        okDate == /\ n >= 10
                  /\ DigitsAt(t, 1, 4) /\ t[5] = "-" /\ DigitsAt(t, 6, 2)
                  /\ t[8] = "-" /\ DigitsAt(t, 9, 2)
        y == IF okDate THEN NumAt(t, 1, 4) ELSE 1
        mo == IF okDate THEN NumAt(t, 6, 2) ELSE 1
        d == IF okDate THEN NumAt(t, 9, 2) ELSE 1
        dateValid == /\ okDate /\ y >= 1 /\ mo \in 1..12
                     /\ d >= 1 /\ d <= DaysInMonth(y, mo)
        rest == IF n > 11 THEN SubSeq(t, 12, n) ELSE <<>>
        p == IF FindChar(rest, "+", 1) # 0 THEN FindChar(rest, "+", 1)
             ELSE FindChar(rest, "-", 1)
        clockText == IF p = 0 THEN rest ELSE SubSeq(rest, 1, p - 1)
        tzText == IF p = 0 THEN <<>> ELSE SubSeq(rest, p + 1, Len(rest))
        clock == ParseClock(clockText)
        tz == ParseClock(tzText)
        tzOk == p = 0 \/ (Len(tzText) >= 5 /\ tz[1])
        tzmin == IF p = 0 THEN 0
                 ELSE (IF rest[p] = "-" THEN -1 ELSE 1) * (tz[2] * 60 + tz[3])
    IN IF ~dateValid THEN Raise("ValueError")
       ELSE IF n = 10 THEN Ret(PyDatetime(y, mo, d, 0, 0, 0, 0))
       ELSE IF n = 11 \/ ~clock[1] \/ ~tzOk THEN Raise("ValueError")
       ELSE IF p = 0
            THEN Ret(PyDatetime(y, mo, d, clock[2], clock[3], clock[4], clock[5]))
            ELSE Ret([k |-> "datetime_tz", y |-> y, mo |-> mo, d |-> d,
                      h |-> clock[2], mi |-> clock[3], sec |-> clock[4],
                      us |-> clock[5], tzmin |-> tzmin])

\* ---- the set branch (lines 159-188) ---------------------------------
\* The while loop over `inner`: i is the 1-based position, current the item
\* being collected, items the list built so far.
RECURSIVE SetScan(_, _, _, _, _)
SetScan(inner, i, current, in_quotes, items) ==
    IF i > Len(inner)
    THEN (IF current # <<>> THEN Append(items, current) ELSE items)
    ELSE IF IsPrefixAt(inner, <<DQ, DQ>>, i)
         THEN SetScan(inner, i + 2, Append(current, DQ), in_quotes, items)
    ELSE IF inner[i] = DQ
         THEN SetScan(inner, i + 1, current, ~in_quotes, items)
    ELSE IF inner[i] = "," /\ ~in_quotes
         THEN SetScan(inner, i + 1, <<>>, in_quotes,
                      IF current # <<>> THEN Append(items, current) ELSE items)
    ELSE SetScan(inner, i + 1, Append(current, inner[i]), in_quotes, items)

\* set(items): the distinct items, in order of first occurrence
RECURSIVE Distinct(_, _)
Distinct(items, seen) ==
    IF items = <<>> THEN <<>>
    ELSE IF Head(items) \in seen THEN Distinct(Tail(items), seen)
    ELSE <<Head(items)>> \o Distinct(Tail(items), seen \cup {Head(items)})

ParseSet(value) ==
    IF value # <<>> /\ Head(value) = "{" /\ value[Len(value)] = "}"
    THEN LET inner == SubSeq(value, 2, Len(value) - 1)
             items == SetScan(inner, 1, <<>>, FALSE, <<>>)
         IN IF inner = <<>> THEN PySet(<<>>)
            ELSE IF items # <<>>
                 THEN PySet(Distinct([i \in DOMAIN items |-> PyStr(items[i])], {}))
                 ELSE PyNone
    ELSE PyNone

\* ---- the map branch (lines 189-224) -----------------------------------
\* Split `inner` at the commas outside quotes (depth stays 0)
RECURSIVE MapScan(_, _, _, _, _)
MapScan(inner, i, current, in_quotes, pairs) ==
    IF i > Len(inner)
    THEN (IF current # <<>> THEN Append(pairs, current) ELSE pairs)
    ELSE IF inner[i] = DQ
         THEN MapScan(inner, i + 1, Append(current, DQ), ~in_quotes, pairs)
    ELSE IF inner[i] = "," /\ ~in_quotes
         THEN MapScan(inner, i + 1, <<>>, in_quotes,
                      IF current # <<>> THEN Append(pairs, current) ELSE pairs)
    ELSE MapScan(inner, i + 1, Append(current, inner[i]), in_quotes, pairs)

\* Mutant: the key without the blanks removed before the quotes are
MapKeyNoBlankStrip(key_part) == StripChars(key_part, {DQ})

\* key_part.strip().strip('"')
MapKey(key_part) == StripChars(Strip(key_part), {DQ})

\* try: float(val_part.strip()) except ValueError: val_part.strip().strip('"')
MapVal(val_part) ==
    IF ParseFloat(Strip(val_part)).ok THEN ParseFloat(Strip(val_part)).v
    ELSE PyStr(StripChars(Strip(val_part), {DQ}))

\* result[key] = val : a later pair with the same key replaces the value and
\* keeps the key's place
DictPut(pairs, key, val) ==
    IF \E i \in DOMAIN pairs : pairs[i][1] = key
    THEN [i \in DOMAIN pairs |-> IF pairs[i][1] = key THEN <<key, val>> ELSE pairs[i]]
    ELSE Append(pairs, <<key, val>>)

RECURSIVE MapBuild(_, _, _)
MapBuild(pairs, n, built) ==
    IF n > Len(pairs) THEN built
    ELSE LET pair == pairs[n]
             c == FindChar(pair, ":", 1)
         IN IF c = 0 THEN MapBuild(pairs, n + 1, built)
            ELSE MapBuild(pairs, n + 1,
                          DictPut(built,
                                  PyStr(MapKey(SubSeq(pair, 1, c - 1))),
                                  MapVal(SubSeq(pair, c + 1, Len(pair)))))

ParseMap(value) ==
    IF value # <<>> /\ Head(value) = "{" /\ value[Len(value)] = "}"
    THEN LET inner == SubSeq(value, 2, Len(value) - 1)
             built == MapBuild(MapScan(inner, 1, <<>>, FALSE, <<>>), 1, <<>>)
         IN IF inner = <<>> THEN PyDict(<<>>)
            ELSE IF built # <<>> THEN PyDict(built) ELSE PyNone
    ELSE PyNone

\* value.lower() in ('true', '1', 'yes')
ParseBoolean(value) ==
    PyBool(Lower(value) \in {<<"t", "r", "u", "e">>, <<"1">>, <<"y", "e", "s">>})

\* Lines 132-227.  `value` is the field's text; the result is Ret(value) or
\* the exception raised by a conversion.
parse_csv_value(value, column_type) ==
    IF value = <<>> \/ Lower(value) = <<"n", "u", "l", "l">> THEN Ret(PyNone)
    ELSE CASE column_type \in {"uuid", "timeuuid"} -> ParseUUID(value)
           [] column_type = "timestamp" ->
                FromIsoFormat(ReplaceSub(value, <<"Z">>, <<"+", "0", "0", ":", "0", "0">>))
           [] column_type \in {"int", "bigint"} -> ParseInt(value)
           [] column_type \in {"float", "double"} -> ParseFloat(value)
           [] column_type = "boolean" -> Ret(ParseBoolean(value))
           [] column_type \in SetTypes -> Ret(ParseSet(value))
           [] column_type \in MapTypes -> Ret(ParseMap(value))
           [] OTHER -> Ret(PyStr(value))

\* ========================================================================
\* PART 5 - the codec on bounded inputs: a value of a column is encoded by
\*          _format_value and the text is decoded by parse_csv_value with
\*          the column's declared type
\* ========================================================================

\* Bounds of the inputs
MaxItems == 2     \* elements of a list, set, dict or vector
MaxLen == 2       \* characters of a free text
MaxInt == 12      \* magnitude of an integer

TextChars == {"a", "7", SP, DQ, NL, TAB}
Texts == SeqsUpTo(TextChars, MaxLen)

\* Plain words: set elements and map keys
Words == {<<"a">>, <<"b">>, <<"a", "b">>, <<"t", "a", "g">>}
\* Set elements may also hold a comma or a quote
ItemTexts == Words \cup {<<"a", ",", "b">>, <<DQ>>}

Ints == {PyInt(n) : n \in (-MaxInt)..MaxInt}
\* 0.8, 1.0, -0.5, 0.25, 12.0, 0.0
Floats == {PyFloat(8, 1), PyFloat(1, 0), PyFloat(-5, 1), PyFloat(25, 2),
           PyFloat(12, 0), PyFloat(0, 0)}
Bools == {PyBool(TRUE), PyBool(FALSE)}

HexSamples == {"0", "7", "a", "f"}
UUIDHexes == {[i \in 1..32 |-> IF i % 2 = 1 THEN x ELSE y] :
                 x \in HexSamples, y \in HexSamples}
UUIDs == {PyUUID(h) : h \in UUIDHexes}
UUIDStrs == {PyStr(UUIDToText(h)) : h \in UUIDHexes}

Datetimes == {PyDatetime(2025, 4, 28, 2, 49, 41, 964000),
              PyDatetime(2024, 2, 29, 23, 59, 59, 0),
              PyDatetime(1999, 12, 31, 0, 0, 0, 1500)}
Dates == {PyDate(2025, 4, 28), PyDate(2024, 2, 29)}

NoDup(q) == \A i, j \in DOMAIN q : i # j => q[i] # q[j]

\* Lists (any order, repetitions allowed) and sets (an iteration order over
\* distinct elements) of texts
TextLists == {PyList(q) : q \in SeqsUpTo({PyStr(w) : w \in ItemTexts}, MaxItems)}
TextSets == {PySet(q) : q \in {r \in SeqsUpTo({PyStr(w) : w \in ItemTexts}, MaxItems) :
                                  NoDup(r)}}

\* Dicts from plain words to numbers, in insertion order
NumberDicts ==
    {PyDict(q) : q \in {r \in SeqsUpTo({PyStr(w) : w \in Words}
                                        \X (Floats \cup {PyInt(3)}), MaxItems) :
                           NoDup([i \in DOMAIN r |-> r[i][1]])}}

\* The dimension the schemas declare for their vector columns
Dimension == 384

\* An embedding of the declared dimension
FullVector == PyList([i \in 1..Dimension |-> IF i % 2 = 1 THEN PyFloat(8, 1) ELSE PyInt(3)])

Vectors ==
    {PyList(q) : q \in SeqsUpTo(Floats \cup {PyInt(3)}, MaxItems)}
    \cup {PyTuple(q) : q \in SeqsUpTo({PyFloat(8, 1), PyInt(3)}, MaxItems)}
    \cup {PyList(<<PyFloat(8, 1), PyStr(<<"a">>)>>)}
    \cup {FullVector}

StrValues == {PyStr(t) : t \in Texts}

\* Longer texts with runs of blanks, line breaks, tabs and quotes
SpacedTexts ==
    {<<"a", SP, SP, SP, "b">>, <<"a", SP, SP, SP, SP, "b">>,
     <<SP, NL, "a", TAB, CR, NL, "b", DQ, SP>>, <<CR, "a", CR, NL, DQ, DQ>>,
     <<DQ, TAB, TAB, TAB, DQ>>, <<NL, CR, TAB>>, <<"a", SP, NL, SP, TAB, SP, "b">>}

\* The values a record may hold for a column of the given type
ValuesFor(t) ==
    {PyNone} \cup
    CASE t \in {"uuid", "timeuuid"} -> UUIDs \cup UUIDStrs \cup {PyStr(<<"a">>)}
      [] t = "timestamp" -> Datetimes \cup {PyStr(<<"a">>), PyInt(7)}
      [] t = "date"      -> Dates \cup Datetimes \cup {PyStr(<<"a">>)}
      [] t = "boolean"   -> Bools \cup {PyInt(0), PyInt(1), PyStr(<<"a">>)}
      [] t = "int"       -> Ints \cup Floats \cup Bools \cup StrValues
                            \cup {PyList(<<>>)}
      [] t \in {"float", "double"} -> Floats \cup Ints \cup StrValues
                                       \cup {PyList(<<>>)}
      [] t = "counter"   -> Ints
      [] t \in SetTypes  -> TextSets \cup TextLists \cup {PyStr(<<"a">>)}
                            \cup {PyList(<<PyUUID(h)>>) : h \in UUIDHexes}
      [] t \in MapTypes  -> NumberDicts \cup {PyStr(<<"a">>)}
      [] t \in VectorTypes -> Vectors \cup {PyStr(<<"a">>)}
      [] OTHER -> StrValues \cup {PyStr(w) : w \in SpacedTexts}
                  \cup Ints \cup Floats \cup Bools
                  \cup {PyList(<<PyStr(<<"a">>), PyStr(<<DQ>>)>>)}

NotCalled == [ok |-> FALSE, exc |-> "not called"]

\* The validator and the codec at rest
VIdle ==
    /\ files = [t \in {"users"} \cup Range(DependentTables) |-> Missing]
    /\ vpc = "idle"
    /\ user_ids = {}
    /\ user_emails = {}
    /\ video_ids = {}
    /\ errors = <<>>
    /\ result = "none"

CIdle ==
    /\ cval = PyNone
    /\ ctype = "text"
    /\ enc = NotCalled
    /\ dec = NotCalled
    /\ cpc = "idle"

\* The loader and the collector at rest
LIdle ==
    /\ lcol = <<>>
    /\ ldecl = "none"
    /\ lraw = <<>>
    /\ lpath = "none"
    /\ lres = NotCalled

KIdle ==
    /\ filtered_videos = <<>>
    /\ resume = FALSE
    /\ skip_transcripts = FALSE
    /\ batch_size = 1
    /\ existing_ids = {}
    /\ disk = <<>>
    /\ collected_videos = <<>>
    /\ fetched = <<>>
    /\ skipped = 0
    /\ batch_count = 0
    /\ pauses = <<>>
    /\ ki = 0
    /\ manifest = <<>>
    /\ kpc = "idle"

\* The components of the data generator at rest
RIdle ==
    /\ rt_users = <<>>
    /\ rt_videos = <<>>
    /\ rt_comments = <<>>
    /\ rt_user_ids = {}
    /\ rt_user_emails = {}
    /\ rt_video_ids = {}
    /\ rt_video_by_user = <<>>
    /\ rt_comments_by_video = <<>>
    /\ rt_comments_by_user = <<>>
    /\ rt_ret = NotCalled

TIdle ==
    /\ max_retries = 0
    /\ consecutive_errors = 0
    /\ request_count = 0
    /\ ip_blocked_count = 0
    /\ retry_count = 0
    /\ tc_backoff = 0
    /\ tc_attempts = 0
    /\ tc_all_blocked = TRUE
    /\ tc_last = <<>>
    /\ tc_ret = NotCalled
    /\ tc_calls = 0
    /\ tpc = "idle"

OIdle ==
    /\ attempt = 0
    /\ last_error = "None"
    /\ og_posts = <<>>
    /\ og_sleeps = <<>>
    /\ og_ret = NotCalled
    /\ opc = "idle"

YIdle ==
    /\ channel_id = "None"
    /\ search_queries = 0
    /\ max_videos = 0
    /\ all_videos = <<>>
    /\ video_ids_seen = {}
    /\ yi = 0
    /\ yc_ran = <<>>
    /\ yc_ret = NotCalled
    /\ ypc = "idle"

EIdle ==
    /\ eg_model = "None"
    /\ eg_texts = <<>>
    /\ eg_raised = FALSE
    /\ eg_ret = NotCalled

GIdle ==
    /\ gr_videos = <<>>
    /\ gr_users = <<>>
    /\ ratings_by_user = <<>>
    /\ video_ratings = <<>>
    /\ gu = 0
    /\ gpc = "idle"

XIdle == RIdle /\ TIdle /\ OIdle /\ YIdle /\ EIdle /\ GIdle

CInit ==
    /\ ctype \in ColumnTypes
    /\ cval \in ValuesFor(ctype)
    /\ enc = NotCalled
    /\ dec = NotCalled
    /\ cpc = "value"

Encode ==
    /\ cpc = "value"
    /\ enc' = _format_value(cval, ctype)
    /\ cpc' = "encoded"
    /\ UNCHANGED <<cval, ctype, dec, vvars, wvars, lvars, kvars>>
    /\ UNCHANGED xvars

\* The loader reads the field back; a field whose encoding raised was
\* never written.
Decode ==
    /\ cpc = "encoded"
    /\ enc.ok
    /\ dec' = parse_csv_value(enc.v, ctype)
    /\ cpc' = "decoded"
    /\ UNCHANGED <<cval, ctype, enc, vvars, wvars, lvars, kvars>>
    /\ UNCHANGED xvars

\* ========================================================================
\* PART 6 - csv_writer.py : CSVWriter.write_table / write_all_tables
\* ========================================================================

\* Bound: total number of records handed to write_all_tables
MaxRecords == 2

\* The schema mapping handed to write_all_tables: table -> ordered columns.
\* "ab" is the two-column schema {a: int, b: text}; tag_counts is the entry
\* of KILLRVIDEO_SCHEMAS.
Schemas ==
    [ab |-> << <<"a", "int">>, <<"b", "text">> >>,
     tag_counts |-> << <<"tag", "text">>, <<"count", "counter">> >>]

\* The tables write_all_tables may be handed; "extra" has no schema
TableNames == {"ab", "tag_counts", "extra"}

\* A record is a dict: <<key, value>> pairs in the record's own key order
Orderings(S) ==
    {q \in [1..Cardinality(S) -> S] : \A i, j \in DOMAIN q : i # j => q[i] # q[j]}

RecordsOver(choices) ==
    UNION {Orderings(ps) :
             ps \in {qs \in SUBSET choices :
                        \A x, y \in qs : x[1] = y[1] => x = y}}

RecordsOf(t) ==
    CASE t = "ab" ->
            \* every record over the two columns in either key order, a
            \* record whose int column holds a text, and records carrying
            \* the key z that is no column
            RecordsOver({<<"a", PyInt(1)>>, <<"b", PyStr(<<"x">>)>>})
            \cup { << <<"a", PyStr(<<"x">>)>>, <<"b", PyStr(<<"x">>)>> >>,
                   << <<"z", PyInt(9)>>, <<"a", PyInt(1)>> >>,
                   << <<"b", PyStr(<<"x">>)>>, <<"z", PyInt(9)>>, <<"a", PyInt(1)>> >>,
                   << <<"z", PyInt(9)>>, <<"a", PyStr(<<"x">>)>> >> }
      [] t = "tag_counts" ->
            RecordsOver({<<"tag", PyStr(<<"t">>)>>, <<"count", PyInt(5)>>})
      [] OTHER -> {<< <<"x", PyInt(1)>> >>}

WIdle ==
    /\ all_data = <<>>
    /\ out = <<>>
    /\ wlog = <<>>
    /\ ti = 0
    /\ ri = 0
    /\ wpc = "idle"

\* row.get(col)
RecordGet(row, col) ==
    IF \E i \in DOMAIN row : row[i][1] = col
    THEN row[CHOOSE i \in DOMAIN row : row[i][1] = col][2]
    ELSE PyNone

Columns(schema) == [i \in DOMAIN schema |-> schema[i][1]]

\* Mutant: the values taken in the record's own key order
FormatRowByPosition(row, schema) ==
    [i \in DOMAIN schema |->
        _format_value(IF i <= Len(row) THEN row[i][2] ELSE PyNone, schema[i][2])]

\* Mutant: a key of the record that is no column raises KeyError
FormatRowStrict(row, schema) ==
    [i \in DOMAIN schema |->
        IF \E j \in DOMAIN row : row[j][1] \notin Range(Columns(schema))
        THEN Raise("KeyError")
        ELSE _format_value(RecordGet(row, schema[i][1]), schema[i][2])]

\* Lines 61-64: formatted_row, one outcome of _format_value per schema column
\* in the schema's order
FormatRow(row, schema) ==
    [i \in DOMAIN schema |-> _format_value(RecordGet(row, schema[i][1]), schema[i][2])]

\* Mutant: no header is written
NoHeaderLines(columns) == <<>>

\* Line 57, writer.writeheader(): the first line of the freshly opened file
HeaderLines(columns) == << [op |-> "writeheader", fields |-> columns] >>

\* Line 66, writer.writerow(formatted_row): DictWriter lists the fields in
\* the order of fieldnames, which is the schema's order
RowLine(formatted) ==
    [op |-> "writerow", fields |-> [i \in DOMAIN formatted |-> formatted[i].v]]

\* The orders in which the dict can list its tables
TableOrders == UNION {Orderings(ts) : ts \in SUBSET TableNames}

\* The record lists of at most n records for the i-th table of the order
DataOf(order, i, n) ==
    IF i > Len(order) THEN {<<>>} ELSE SeqsUpTo(RecordsOf(order[i]), n)

\* The output directory before the run: empty, or with an ab.csv left by an
\* earlier run
StaleLines ==
    << [op |-> "writeheader", fields |-> <<"a", "b">>],
       [op |-> "writerow", fields |-> << <<"7">>, <<"o", "l", "d">> >>] >>
OutputDirs == {<<>>, [t \in {"ab"} |-> StaleLines], [t \in {"extra"} |-> StaleLines]}

WInit ==
    /\ \E order \in TableOrders :
       \E d1 \in DataOf(order, 1, MaxRecords) :
       \E d2 \in DataOf(order, 2, MaxRecords - Len(d1)) :
       \E d3 \in DataOf(order, 3, MaxRecords - Len(d1) - Len(d2)) :
          all_data = [i \in DOMAIN order |->
                        <<order[i], CASE i = 1 -> d1 [] i = 2 -> d2 [] OTHER -> d3>>]
    /\ out \in OutputDirs
    /\ wlog = <<>>
    /\ ti = 1
    /\ ri = 0
    /\ wpc = "tables"

HasSchema(t) == t \in DOMAIN Schemas

\* Mutant: a table without a schema stops the run
SkipTableFatal(table_name) ==
    /\ wlog' = Append(wlog, [msg |-> "no schema", table |-> table_name])
    /\ wpc' = "raised"
    /\ UNCHANGED <<out, ri, ti>>

\* Lines 169-170: the table has no schema; a message with its name is
\* printed and the loop goes on
SkipTable(table_name) ==
    /\ wlog' = Append(wlog, [msg |-> "no schema", table |-> table_name])
    /\ ti' = ti + 1
    /\ UNCHANGED <<out, ri, wpc>>

\* Lines 166-170 and 37-57: the next table of the loop.  Without a schema,
\* or with no data, only a message is printed; otherwise the file is opened
\* with mode 'w' (created, or emptied when it exists) and the header written.
BeginTable ==
    /\ wpc = "tables"
    /\ ti <= Len(all_data)
    /\ LET table_name == all_data[ti][1]
           data == all_data[ti][2]
       IN IF ~HasSchema(table_name)
          THEN SkipTable(table_name)
          ELSE IF data = <<>>
          THEN /\ wlog' = Append(wlog, [msg |-> "no data", table |-> table_name])
               /\ ti' = ti + 1
               /\ UNCHANGED <<out, ri, wpc>>
          ELSE /\ out' = DictSet(out, table_name,
                                 HeaderLines(Columns(Schemas[table_name])))
               /\ ri' = 1
               /\ wpc' = "rows"
               /\ UNCHANGED <<wlog, ti>>
    /\ UNCHANGED <<all_data, vvars, cvars, lvars, kvars>>
    /\ UNCHANGED xvars

\* Lines 59-66: one record.  An exception of _format_value is caught
\* nowhere: it leaves write_table and write_all_tables, the file keeps what
\* was written before.
WriteRow ==
    /\ wpc = "rows"
    /\ ri <= Len(all_data[ti][2])
    /\ LET table_name == all_data[ti][1]
           formatted == FormatRow(all_data[ti][2][ri], Schemas[table_name])
       IN IF \A i \in DOMAIN formatted : formatted[i].ok
          THEN /\ out' = DictSet(out, table_name,
                                 Append(out[table_name], RowLine(formatted)))
               /\ ri' = ri + 1
               /\ UNCHANGED wpc
          ELSE /\ wpc' = "raised"
               /\ UNCHANGED <<out, ri>>
    /\ UNCHANGED <<all_data, wlog, ti, vvars, cvars, lvars, kvars>>
    /\ UNCHANGED xvars

\* Line 68: the file is closed and the row count printed
EndTable ==
    /\ wpc = "rows"
    /\ ri > Len(all_data[ti][2])
    /\ wlog' = Append(wlog, [msg |-> "wrote", table |-> all_data[ti][1]])
    /\ ti' = ti + 1
    /\ wpc' = "tables"
    /\ UNCHANGED <<all_data, out, ri, vvars, cvars, lvars, kvars>>
    /\ UNCHANGED xvars

\* The loop of write_all_tables is exhausted
FinishRun ==
    /\ wpc = "tables"
    /\ ti > Len(all_data)
    /\ wpc' = "done"
    /\ UNCHANGED <<all_data, out, wlog, ti, ri, vvars, cvars, lvars, kvars>>
    /\ UNCHANGED xvars

WNext == BeginTable \/ WriteRow \/ EndTable \/ FinishRun

InitWriter == VIdle /\ CIdle /\ WInit /\ LIdle /\ KIdle /\ XIdle

SpecWriter == InitWriter /\ [][WNext]_vars

CNext == Encode \/ Decode

InitCodec == VIdle /\ CInit /\ WIdle /\ LIdle /\ KIdle /\ XIdle

SpecCodec == InitCodec /\ [][CNext]_vars

InitValidate == VInit /\ CIdle /\ WIdle /\ LIdle /\ KIdle /\ XIdle

SpecValidate == InitValidate /\ [][VNext]_vars

\* ========================================================================
\* PART 7 - properties of the referential-integrity validator
\* ========================================================================

\* What the directory itself says, independently of the validator's state
UsersPresent == files["users"].exists
VideosPresent == files["videos"].exists
PrimaryKeysPresent == UsersPresent /\ VideosPresent

FileUserIds == {r.userid : r \in Range(files["users"].rows)}
FileUserEmails == {r.email : r \in Range(files["users"].rows)}
FileVideoIds == {r.videoid : r \in Range(files["videos"].rows)}

Referenced(col) ==
    CASE col = "userid" -> FileUserIds
      [] col = "email"  -> FileUserEmails
      [] OTHER          -> FileVideoIds

\* The broken references of table t: <<row number, foreign key number>>
Broken(t) ==
    {p \in (1..Len(files[t].rows)) \X (1..Len(ForeignKeys(t))) :
        files[t].rows[p[1]][ForeignKeys(t)[p[2]][1]]
            \notin Referenced(ForeignKeys(t)[p[2]][1])}

AllForeignKeysValid ==
    \A t \in Range(DependentTables) : files[t].exists => Broken(t) = {}

TableIndex(t) == CHOOSE i \in DOMAIN DependentTables : DependentTables[i] = t

\* The validator has finished the block of table t
Validated(t) ==
    /\ PrimaryKeysPresent
    /\ \/ vpc \in {"summary", "done"}
       \/ /\ vpc \in Range(DependentTables)
          /\ TableIndex(vpc) > TableIndex(t)

ViolationRecorded == \E t \in DOMAIN errors : errors[t] # <<>>

\* C1 (as claimed): the validator returns True whenever both primary-key
\* files exist and every foreign key of every dependent table present on disk
\* is in the referenced set, and returns False only when a violation was
\* recorded or a primary-key file is missing.
C1_PassWhenAllKeysValid ==
    vpc = "done" =>
        /\ (PrimaryKeysPresent /\ AllForeignKeysValid) => result = "True"
        /\ result = "False" => (ViolationRecorded \/ ~PrimaryKeysPresent)

\* C2: the validator does not stop at the first violation.  For every
\* dependent table it has gone through, the table's error list holds exactly
\* one entry per broken foreign key of every row (0-based row index and the
\* offending value), in row order; a missing file gets no entry.  With users =
\* {U1}, videos.csv without V1 and comments = [(V1, U2)], two errors are
\* recorded for comments and the result is failure.
C2_EveryViolationRecorded ==
    /\ \A t \in Range(DependentTables) :
          Validated(t) =>
             IF files[t].exists
             THEN /\ t \in DOMAIN errors
                  /\ Len(errors[t]) = Cardinality(Broken(t))
                  /\ \A p \in Broken(t) :
                        \E j \in DOMAIN errors[t] :
                           /\ errors[t][j].row = p[1] - 1
                           /\ errors[t][j].col = ForeignKeys(t)[p[2]][1]
                           /\ errors[t][j].value =
                                 files[t].rows[p[1]][ForeignKeys(t)[p[2]][1]]
                           /\ errors[t][j].ref = ForeignKeys(t)[p[2]][3]
                  /\ \A i, j \in DOMAIN errors[t] :
                        i < j => errors[t][i].row <= errors[t][j].row
             ELSE t \notin DOMAIN errors
    /\ ( /\ vpc = "done"
         /\ UsersPresent /\ FileUserIds = {"U1"}
         /\ VideosPresent /\ "V1" \notin FileVideoIds
         /\ files["comments"] = Present(<<[videoid |-> "V1", userid |-> "U2"]>>) )
       => /\ Len(errors["comments"]) = 2
          /\ result = "False"

\* Witness of C2: the scenario has run to its end with both errors recorded
C2_Witness ==
    /\ vpc = "done"
    /\ UsersPresent /\ FileUserIds = {"U1"}
    /\ VideosPresent /\ "V1" \notin FileVideoIds
    /\ files["comments"] = Present(<<[videoid |-> "V1", userid |-> "U2"]>>)
    /\ "comments" \in DOMAIN errors
    /\ Len(errors["comments"]) = 2

\* ========================================================================
\* PART 8 - properties of the codec (one field encoded, then decoded)
\* ========================================================================

EmptyList == <<"[", "]">>
EmptyObject == <<"{", "}">>

Encoded == cpc \in {"encoded", "decoded"}
Decoded == cpc = "decoded"

\* C4 (as claimed): an empty set encodes to `[]` and an empty map to `{}`,
\* and decoding those texts with the declared set / map type yields an empty
\* set / an empty map, never None.
C4_EmptyContainersRoundTrip ==
    /\ (Encoded /\ ctype \in SetTypes /\ cval \in {PySet(<<>>), PyList(<<>>)})
          => /\ enc.ok /\ enc.v = EmptyList
             /\ Decoded => (dec.ok /\ dec.v = PySet(<<>>))
    /\ (Encoded /\ ctype \in MapTypes /\ cval = PyDict(<<>>))
          => /\ enc.ok /\ enc.v = EmptyObject
             /\ Decoded => (dec.ok /\ dec.v = PyDict(<<>>))

\* C5 (as claimed): None encodes to the empty field for every scalar, vector
\* and text column, to `[]` for a set column and to `{}` for a map column.
C5_NullRepresentation ==
    (Encoded /\ cval = PyNone)
       => /\ enc.ok
          /\ enc.v = (IF ctype \in SetTypes THEN EmptyList
                      ELSE IF ctype \in MapTypes THEN EmptyObject
                      ELSE <<>>)

\* C6 (as claimed): for every non-empty set of strings, decoding the
\* encoder's output with the declared type set<text> yields an equal set.
C6_SetRoundTrip ==
    (Decoded /\ ctype \in SetTypes /\ cval.k = "set" /\ cval.items # <<>>)
       => /\ dec.ok
          /\ dec.v.k = "set"
          /\ Range(dec.v.items) = Range(cval.items)

\* A dict as the mapping it denotes: key text -> number (3 and 3.0 are the
\* same number)
NumberOf(v) == IF v.k = "int" THEN PyFloat(v.n, 0) ELSE v
MappingOf(d) == {<<d.pairs[i][1].s, NumberOf(d.pairs[i][2])>> : i \in DOMAIN d.pairs}

\* C7: round trip for uuid, int, boolean and map<text,float>.  For every
\* non-null value of such a column (a UUID or its canonical text; an integer;
\* a boolean; a dict from plain words to numbers) the encoder returns a text,
\* and decoding it with the declared type yields the same UUID, the same
\* integer, the same truth value, the same key-to-number mapping.
C7_ScalarAndMapRoundTrip ==
    /\ (Encoded /\ ctype \in {"uuid", "timeuuid"} /\ cval \in UUIDs \cup UUIDStrs)
          => /\ enc.ok
             /\ Decoded => /\ dec.ok
                           /\ dec.v.k = "UUID"
                           /\ IF cval.k = "UUID" THEN dec.v = cval
                              ELSE UUIDToText(dec.v.hex) = cval.s
    /\ (Encoded /\ ctype = "int" /\ cval \in Ints)
          => /\ enc.ok
             /\ Decoded => (dec.ok /\ dec.v = cval)
    /\ (Encoded /\ ctype = "boolean" /\ cval \in Bools)
          => /\ enc.ok
             /\ Decoded => (dec.ok /\ dec.v = cval)
    /\ (Encoded /\ ctype = "map<text,float>" /\ cval \in NumberDicts)
          => /\ enc.ok
             /\ Decoded => /\ dec.ok
                           /\ dec.v.k = "dict"
                           /\ Len(dec.v.pairs) = Len(cval.pairs)
                           /\ \A i \in DOMAIN dec.v.pairs :
                                 /\ dec.v.pairs[i][1].k = "str"
                                 /\ dec.v.pairs[i][2].k = "float"
                           /\ MappingOf(dec.v) = MappingOf(cval)

\* Witness of C7: a two-key map has gone through the encoder and the decoder
C7_Witness ==
    /\ Decoded
    /\ ctype = "map<text,float>"
    /\ cval \in NumberDicts
    /\ Len(cval.pairs) = 2
    /\ dec.ok
    /\ dec.v.k = "dict"
    /\ MappingOf(dec.v) = MappingOf(cval)

\* ========================================================================
\* PART 9 - properties of write_table / write_all_tables
\* ========================================================================

Keys(rec) == {rec[i][1] : i \in DOMAIN rec}

\* The text each value of the model's records must produce in its column,
\* written out case by case; a key the record lacks gives the empty field.
ExpectedField(rec, col) ==
    IF col \notin Keys(rec) THEN <<>>
    ELSE LET v == rec[CHOOSE i \in DOMAIN rec : rec[i][1] = col][2]
         IN CASE v = PyInt(1) -> <<"1">>
              [] v = PyInt(5) -> <<"5">>
              [] v = PyInt(9) -> <<"9">>
              [] v = PyStr(<<"x">>) -> <<"x">>
              [] v = PyStr(<<"t">>) -> <<"t">>

\* The records whose value for an int column is not a number
BadRecord(t, rec) == t = "ab" /\ <<"a", PyStr(<<"x">>)>> \in Range(rec)

DataOfTable(t) == all_data[CHOOSE i \in DOMAIN all_data : all_data[i][1] = t][2]

\* The tables of the run that have a schema and at least one record
Writable == {i \in DOMAIN all_data : HasSchema(all_data[i][1]) /\ all_data[i][2] # <<>>}

\* The i-th table of the run has been opened
Begun(i) == i < ti \/ (i = ti /\ wpc \in {"rows", "raised"})

\* The files this run has opened for writing
WrittenTables == {all_data[i][1] : i \in {w \in Writable : Begun(w)}}

RECURSIVE GoodRecords(_, _)
GoodRecords(t, data) ==
    IF data = <<>> THEN <<>>
    ELSE (IF BadRecord(t, Head(data)) THEN <<>> ELSE <<Head(data)>>)
         \o GoodRecords(t, Tail(data))

\* C3 (as claimed): a record with a field that cannot be formatted for its
\* column type makes the encoder skip that row only; the other rows of the
\* table and the remaining tables are still written, and no exception aborts
\* the table or the run.
C3_BadRowSkippedOnly ==
    /\ wpc # "raised"
    /\ wpc = "done" =>
          \A i \in Writable :
             LET t == all_data[i][1]
                 good == GoodRecords(t, all_data[i][2])
             IN /\ t \in DOMAIN out
                /\ Len(out[t]) = 1 + Len(good)
                /\ \A j \in DOMAIN good :
                      out[t][j + 1].fields =
                         [c \in DOMAIN Schemas[t] |-> ExpectedField(good[j], Schemas[t][c][1])]

\* C8: every written data row lists one field per schema column in the
\* schema's declared order, whatever the key order of the record: field i is
\* the text of the record's value for column i (empty when the record lacks
\* the key).  Schema {a: int, b: text} with record {b: 'x', a: 1} gives the
\* fields [1, x].
C8_SchemaOrder ==
    \A t \in WrittenTables :
       \A j \in 2..Len(out[t]) :
          LET rec == DataOfTable(t)[j - 1]
              fields == out[t][j].fields
          IN /\ Len(fields) = Len(Schemas[t])
             /\ \A c \in DOMAIN Schemas[t] :
                   fields[c] = ExpectedField(rec, Schemas[t][c][1])
             /\ (t = "ab" /\ rec = << <<"b", PyStr(<<"x">>)>>, <<"a", PyInt(1)>> >>)
                   => fields = << <<"1">>, <<"x">> >>

\* Witness of C8: the record {b: 'x', a: 1} was written as [1, x]
C8_Witness ==
    /\ "ab" \in WrittenTables
    /\ \E j \in 2..Len(out["ab"]) :
          /\ DataOfTable("ab")[j - 1] = << <<"b", PyStr(<<"x">>)>>, <<"a", PyInt(1)>> >>
          /\ out["ab"][j].fields = << <<"1">>, <<"x">> >>

\* C9: for every table written with a non-empty record list the file starts
\* with exactly one header row, the schema's column names in declared order,
\* written before any data row; every later line is a data row.
C9_HeaderOnceFirst ==
    /\ \A t \in WrittenTables :
          /\ t \in DOMAIN out
          /\ Len(out[t]) >= 1
          /\ out[t][1] = [op |-> "writeheader", fields |-> Columns(Schemas[t])]
          /\ \A j \in 2..Len(out[t]) : out[t][j].op = "writerow"

\* Witness of C9: a file with its header and two data rows
C9_Witness ==
    \E t \in WrittenTables :
       /\ Len(out[t]) = 3
       /\ out[t][1].op = "writeheader"
       /\ out[t][2].op = "writerow"
       /\ out[t][3].op = "writerow"

UnknownKeys(t, rec) == Keys(rec) \ Range(Columns(Schemas[t]))

\* The records of the i-th table that write_table has gone through
Passed(i) ==
    IF i < ti THEN Len(all_data[i][2])
    ELSE IF i = ti /\ wpc \in {"rows", "raised"} THEN ri - 1
    ELSE 0

\* C10: a record key that is no column of the schema is dropped without
\* error.  Every record that carries such a key and that write_table has gone
\* through has its row in the file, with exactly as many fields as the schema
\* has columns and no field for the unknown key; and an exception is raised
\* only at a record whose value for a schema column cannot be formatted.
C10_UnknownKeysDropped ==
    /\ \A i \in Writable :
          LET t == all_data[i][1]
          IN \A j \in 1..Passed(i) :
                LET rec == all_data[i][2][j]
                IN UnknownKeys(t, rec) # {} =>
                      /\ t \in DOMAIN out
                      /\ Len(out[t]) >= j + 1
                      /\ Len(out[t][j + 1].fields) = Len(Schemas[t])
                      /\ \A c \in DOMAIN Schemas[t] :
                            out[t][j + 1].fields[c] = ExpectedField(rec, Schemas[t][c][1])
    /\ wpc = "raised" => BadRecord(all_data[ti][1], all_data[ti][2][ri])

\* Witness of C10: a record with the unknown key z was written as a row of
\* two fields
C10_Witness ==
    /\ "ab" \in WrittenTables
    /\ \E j \in 2..Len(out["ab"]) :
          /\ "z" \in Keys(DataOfTable("ab")[j - 1])
          /\ Len(out["ab"][j].fields) = 2

\* ========================================================================
\* PART 10 - properties of the text and vector branches of _format_value
\* ========================================================================

\* The characters the text branch has to remove or replace
Contains(t, c) == \E i \in DOMAIN t : t[i] = c

\* C11: for every input to a text column, whatever double quotes,
\* newlines, carriage returns or tabs it holds, the encoder returns a text
\* with no double quote, no newline, no carriage return and no tab, with no
\* run of two or more spaces and with no leading or trailing space.
C11_TextFieldClean ==
    (Encoded /\ ctype = "text")
       => /\ enc.ok
          /\ ~Contains(enc.v, DQ)
          /\ ~Contains(enc.v, NL)
          /\ ~Contains(enc.v, CR)
          /\ ~Contains(enc.v, TAB)
          /\ ~HasDoubleSpace(enc.v)
          /\ enc.v # <<>> => (Head(enc.v) # SP /\ enc.v[Len(enc.v)] # SP)

\* Witness of C11: a text with a quote, line breaks, a tab and a run of
\* blanks was encoded to a non-empty field
C11_Witness ==
    /\ Encoded
    /\ ctype = "text"
    /\ cval = PyStr(<<SP, NL, "a", TAB, CR, NL, "b", DQ, SP>>)
    /\ enc.ok
    /\ enc.v = <<"a", SP, "b", SQ>>

\* ========================================================================
\* PART 11 - write_all_tables and a table without a schema
\* ========================================================================

\* The tables of the run without an entry in the schema mapping
Schemaless == {i \in DOMAIN all_data : ~HasSchema(all_data[i][1])}

\* No record of the tables 1..j holds a value its column cannot format
NoBadUpTo(j) ==
    \A k \in 1..j : \A r \in DOMAIN all_data[k][2] :
       ~BadRecord(all_data[k][1], all_data[k][2][r])

\* The file of the i-th table holds the header and one row per record
FileComplete(i) ==
    /\ all_data[i][1] \in DOMAIN out
    /\ Len(out[all_data[i][1]]) = 1 + Len(all_data[i][2])
    /\ out[all_data[i][1]][1].op = "writeheader"

\* C12: a table name without an entry in the schema mapping is abandoned:
\* the run produces no file for it (a file left by an earlier run keeps its
\* content), the message names the table, the run does not stop at it, and
\* when the run has ended every table with a schema and records, in a run
\* that also held a table without schema, has its complete file unless a
\* record of it or of an earlier table could not be formatted.
C12_MissingSchemaSkipped ==
    \A i \in Schemaless :
       LET t == all_data[i][1]
       IN /\ t \in DOMAIN out => out[t] = StaleLines
          /\ i < ti => \E k \in DOMAIN wlog : wlog[k] = [msg |-> "no schema", table |-> t]
          /\ \A k \in DOMAIN wlog : wlog[k].table = t => wlog[k].msg = "no schema"
          /\ ~(wpc = "raised" /\ ti = i)
          /\ wpc \in {"done", "raised"} =>
                \A j \in Writable : NoBadUpTo(j) => (j < ti /\ FileComplete(j))

\* Witness of C12: the run has ended; its first table had records but no
\* schema and has no file, the table after it was written with its row
C12_Witness ==
    /\ wpc = "done"
    /\ Len(all_data) = 2
    /\ all_data[1][1] = "extra"
    /\ all_data[1][2] # <<>>
    /\ all_data[2][1] = "ab"
    /\ "extra" \notin DOMAIN out
    /\ "ab" \in DOMAIN out
    /\ Len(out["ab"]) = 2
    /\ wlog[1] = [msg |-> "no schema", table |-> "extra"]

\* ========================================================================
\* PART 12 - the vector branch of _format_value
\* ========================================================================

\* The places of the separator comma-space in a text
SeparatorsOf(t) == {i \in 1..(Len(t) - 1) : t[i] = "," /\ t[i + 1] = SP}

\* The places where the tokens of a text begin: its first character and
\* the character after each separator; the empty text has no token
TokenStarts(t) ==
    IF t = <<>> THEN {} ELSE {1} \cup {p + 2 : p \in SeparatorsOf(t)}

\* The token that begins at s: up to the next separator or the end
TokenAt(t, s) ==
    LET IsSep(i) == i < Len(t) /\ t[i] = "," /\ t[i + 1] = SP
        last == CHOOSE e \in (s - 1)..Len(t) :
                   /\ e = Len(t) \/ IsSep(e + 1)
                   /\ \A i \in s..e : ~IsSep(i)
    IN SubSeq(t, s, last)

\* The rank of the token that begins at s
TokenIndex(t, s) == Cardinality({p \in SeparatorsOf(t) : p < s}) + 1

\* The text between the brackets
Inner(t) == SubSeq(t, 2, Len(t) - 1)

\* A list or tuple whose elements are all numbers
NumberVector(v) ==
    /\ v.k \in {"list", "tuple"}
    /\ \A i \in DOMAIN v.items : v.items[i].k \in {"int", "float"}

\* C13: a list or tuple of N numbers in a vector column is encoded, for
\* every N and whatever the dimension the column type declares, to a text in
\* brackets holding exactly N tokens separated by comma-space, the i-th token
\* being the decimal text of the i-th number.
C13_VectorTokens ==
    (Encoded /\ ctype \in VectorTypes /\ NumberVector(cval))
       => /\ enc.ok
          /\ Len(enc.v) >= 2
          /\ Head(enc.v) = "["
          /\ enc.v[Len(enc.v)] = "]"
          /\ Cardinality(TokenStarts(Inner(enc.v))) = Len(cval.items)
          /\ \A s \in TokenStarts(Inner(enc.v)) :
                LET token == TokenAt(Inner(enc.v), s)
                    i == TokenIndex(Inner(enc.v), s)
                IN /\ ParseFloat(token).ok
                   /\ ParseFloat(token).v = NumberOf(cval.items[i])
                   /\ ~Contains(token, SP)
                   /\ ~Contains(token, ",")

\* Witness of C13: a vector of 384 numbers was encoded in a column declared
\* vector<float,384> to a text of 384 tokens
C13_Witness ==
    /\ Encoded
    /\ ctype = "vector<float,384>"
    /\ cval = FullVector
    /\ enc.ok
    /\ Cardinality(TokenStarts(Inner(enc.v))) = 384
    /\ TokenAt(Inner(enc.v), 1) = <<"0", ".", "8">>

\* ========================================================================
\* PART 13 - the loaders' decoding of one field:
\*   load_with_python.py     CassandraLoader.load_table (lines 275-284)
\*   load_with_embeddings.py AstraTableLoader.load_table_with_embeddings
\*                           (lines 455-489)
\*   load_to_collections.py  CollectionLoader.parse_row (lines 146-238)
\*   load_data_cql.py        parse_uuid, parse_timestamp, load_users
\* ========================================================================

\* parsed[key] is not set: the document has no such field
PyAbsent == [k |-> "absent"]

StartsWith(t, prefix) == IsPrefixAt(t, prefix, 1)
EndsWith(t, suffix) ==
    Len(t) >= Len(suffix) /\ IsPrefixAt(t, suffix, Len(t) - Len(suffix) + 1)

\* value.count(c)
CountChar(t, c) == Cardinality({i \in DOMAIN t : t[i] = c})

\* text.split(c)
RECURSIVE SplitChar(_, _)
SplitChar(t, c) ==
    LET p == FindChar(t, c, 1)
    IN IF p = 0 THEN <<t>>
       ELSE <<SubSeq(t, 1, p - 1)>> \o SplitChar(SubSeq(t, p + 1, Len(t)), c)

\* ---- load_with_python.py, load_table --------------------------------
\* Lines 277-283: with a declared type parse_csv_value, otherwise the raw
\* text, None for the empty text.  An exception is caught for the whole
\* row at line 298 and the row is counted as failed.
load_table_value(raw_value, declared) ==
    IF declared # "none" THEN parse_csv_value(raw_value, declared)
    ELSE Ret(IF raw_value # <<>> THEN PyStr(raw_value) ELSE PyNone)

\* ---- load_with_embeddings.py, load_table_with_embeddings ------------
\* json.loads of one element of a flat array: a string without quote or
\* backslash inside, a number, true, false or null
JsonScalar(t) ==
    LET unsigned == IF t # <<>> /\ Head(t) = "-" THEN Tail(t) ELSE t
        p == FindChar(unsigned, ".", 1)
        ip == IF p = 0 THEN unsigned ELSE SubSeq(unsigned, 1, p - 1)
        fp == IF p = 0 THEN <<>> ELSE SubSeq(unsigned, p + 1, Len(unsigned))
        number == /\ AllDigits(ip)
                  /\ Len(ip) > 1 => Head(ip) # "0"
                  /\ p # 0 => AllDigits(fp)
    IN IF Len(t) >= 2 /\ Head(t) = DQ /\ t[Len(t)] = DQ
          /\ \A i \in 2..(Len(t) - 1) : t[i] \notin {DQ, BSL}
       THEN Ret(PyStr(SubSeq(t, 2, Len(t) - 1)))
       ELSE IF number THEN (IF p = 0 THEN ParseInt(t) ELSE ParseFloat(t))
       ELSE IF t = <<"t", "r", "u", "e">> THEN Ret(PyBool(TRUE))
       ELSE IF t = <<"f", "a", "l", "s", "e">> THEN Ret(PyBool(FALSE))
       ELSE IF t = <<"n", "u", "l", "l">> THEN Ret(PyNone)
       ELSE Raise("JSONDecodeError")

\* json.loads of a text that starts with [ and ends with ]: a flat array
\* whose strings hold no comma
JsonLoadsArray(text) ==
    IF Len(text) < 2 THEN Raise("JSONDecodeError")
    ELSE LET inner == Strip(SubSeq(text, 2, Len(text) - 1))
             parts == SplitChar(inner, ",")
             elems == [i \in DOMAIN parts |-> JsonScalar(Strip(parts[i]))]
         IN IF inner = <<>> THEN Ret(<<>>)
            ELSE IF \E i \in DOMAIN elems : ~elems[i].ok THEN Raise("JSONDecodeError")
            ELSE Ret([i \in DOMAIN elems |-> elems[i].v])

\* Lines 477-485: the items between the braces, split at the commas, the
\* blank ones dropped, blanks and quotes stripped
RECURSIVE BraceItems(_)
BraceItems(parts) ==
    IF parts = <<>> THEN <<>>
    ELSE (IF Strip(Head(parts)) = <<>> THEN <<>>
          ELSE <<PyStr(StripChars(StripChars(Strip(Head(parts)), {DQ}), {SQ}))>>)
         \o BraceItems(Tail(parts))

\* Lines 462-472: float(Decimal(value)) or int(value) of a text that is all
\* digits once its dots are removed
EmbeddingsNumber(value) ==
    IF Contains(value, ".")
    THEN (IF ParseFloat(value).ok THEN ParseFloat(value)
          ELSE Raise("InvalidOperation"))
    ELSE ParseInt(value)

\* Lines 455-489: the columns that are not the vector column.  The type is
\* inferred from the column's name, then from the text.  No exception is
\* caught: the try around the row is commented out (lines 417, 505-507).
embeddings_value(col, value) ==
    IF EndsWith(col, <<"i", "d">>) THEN ParseUUID(value)
    ELSE IF EndsWith(col, <<"d", "a", "t", "e">>)
    THEN FromIsoFormat(ReplaceSub(value, <<"Z">>, <<"+", "0", "0", ":", "0", "0">>))
    ELSE IF AllDigits(ReplaceChar(value, ".", <<>>)) THEN EmbeddingsNumber(value)
    ELSE IF StartsWith(value, <<"[">>) /\ EndsWith(value, <<"]">>)
    THEN (IF JsonLoadsArray(value).ok
          THEN Ret(PySet(Distinct(JsonLoadsArray(value).v, {})))
          ELSE JsonLoadsArray(value))
    ELSE IF StartsWith(value, <<"{">>) /\ EndsWith(value, <<"}">>)
    THEN Ret(PyList(BraceItems(SplitChar(SubSeq(value, 2, Len(value) - 1), ","))))
    ELSE Ret(IF value # <<>> THEN PyStr(value) ELSE PyNone)

\* ---- load_to_collections.py, parse_row ------------------------------
\* Lines 159-160: the text looks like an integer
LooksLikeInt(value) ==
    AllDigits(value) \/ (Head(value) = "-" /\ AllDigits(Tail(value)))

\* Lines 169-192: the items of a braced text with a quote in it
RowItems(value) ==
    LET inner == SubSeq(value, 2, Len(value) - 1)
        items == SetScan(inner, 1, <<>>, FALSE, <<>>)
    IN PyList([i \in DOMAIN items |-> PyStr(items[i])])

\* Lines 194-225: the pairs of a braced text with a colon in it
RowMap(value) ==
    LET inner == SubSeq(value, 2, Len(value) - 1)
    IN PyDict(MapBuild(MapScan(inner, 1, <<>>, FALSE, <<>>), 1, <<>>))

\* Lines 227-231: the last rules, the boolean words and the plain text
RowWord(value) ==
    IF Lower(value) \in {<<"t", "r", "u", "e">>, <<"f", "a", "l", "s", "e">>}
    THEN PyBool(Lower(value) = <<"t", "r", "u", "e">>)
    ELSE PyStr(value)

\* Lines 146-234, one field of the row: the rules in the order of the code.
\* int() and the scanners cannot raise on these texts; float() is inside
\* its own try.
parse_row_value(value) ==
    IF value = <<>> \/ Lower(value) = <<"n", "u", "l", "l">> THEN Ret(PyAbsent)
    ELSE IF Len(value) = 36 /\ CountChar(value, "-") = 4 THEN Ret(PyStr(value))
    ELSE IF Contains(value, "T") /\ (Contains(value, "Z") \/ Contains(value, "+"))
    THEN Ret(PyStr(value))
    ELSE IF LooksLikeInt(value)
    THEN (IF ParseInt(value).ok THEN ParseInt(value) ELSE Ret(PyStr(value)))
    ELSE IF Contains(value, ".")
    THEN (IF ParseFloat(value).ok THEN ParseFloat(value) ELSE Ret(PyStr(value)))
    ELSE IF StartsWith(value, <<"{">>) /\ EndsWith(value, <<"}">>) /\ Contains(value, DQ)
    THEN Ret(RowItems(value))
    ELSE IF StartsWith(value, <<"{">>) /\ EndsWith(value, <<"}">>) /\ Contains(value, ":")
    THEN Ret(RowMap(value))
    ELSE Ret(RowWord(value))

\* ---- load_data_cql.py ------------------------------------------------
\* Lines 71-79
parse_uuid(value) ==
    IF value = <<>> THEN Ret(PyNone)
    ELSE IF ParseUUID(value).ok THEN ParseUUID(value)
    ELSE Ret(PyNone)

\* Lines 82-90
parse_timestamp(value) ==
    LET parsed == FromIsoFormat(ReplaceSub(value, <<"Z">>, <<"+", "0", "0", ":", "0", "0">>))
    IN IF value = <<>> THEN Ret(PyNone)
       ELSE IF parsed.ok THEN parsed
       ELSE Ret(PyNone)

\* Lines 159-165 (load_users): the field of a column by the role the
\* loader gives it; a text column is passed on as read
cql_value(value, declared) ==
    CASE declared = "uuid" -> parse_uuid(value)
      [] declared = "timestamp" -> parse_timestamp(value)
      [] OTHER -> Ret(PyStr(value))

\* ---- the inputs -------------------------------------------------------
\* The texts that stand for null: the empty field and the word null
NullTexts ==
    {<<>>, <<"n", "u", "l", "l">>, <<"N", "U", "L", "L">>,
     <<"N", "u", "l", "l">>}

\* Well-formed UUID texts
UUIDTexts ==
    {UUIDToText(h) : h \in {[i \in 1..32 |-> IF i % 2 = 1 THEN "0" ELSE "a"],
                             [i \in 1..32 |-> IF i % 2 = 1 THEN "7" ELSE "f"]}}

\* Malformed UUID texts, the second of 36 characters with four hyphens
BadUUIDTexts == {<<"z", "z">>, UUIDToText([i \in 1..32 |-> "g"])}

\* Well-formed timestamps
TimestampTexts ==
    {<<"2", "0", "2", "5", "-", "0", "4", "-", "2", "8", "T",
       "0", "2", ":", "4", "9", ":", "4", "1", ".", "9", "6", "4", "Z">>,
     <<"2", "0", "2", "4", "-", "0", "2", "-", "2", "9", "T",
       "2", "3", ":", "5", "9", ":", "5", "9", "+", "0", "0", ":", "0", "0">>}

\* Malformed timestamps
BadTimestampTexts ==
    {<<"2", "0", "2", "5", "-", "1", "3", "-", "0", "1", "T",
       "0", "0", ":", "0", "0", ":", "0", "0", "Z">>,
     <<"2", "8", "/", "0", "4", "/", "2", "0", "2", "5">>}

\* Numbers and near-numbers
NumberTexts ==
    {<<"1", "2">>, <<"-", "5">>, <<"5", "-">>, <<"0", "0", "7">>,
     <<"1", ".", "5">>, <<"-", "0", ".", "5">>,
     <<"1", ".", "2", ".", "3">>, <<"1", ".">>, <<".">>,
     <<"a", ".", "b">>, <<"-">>}

\* Words, the boolean words among them
WordTexts ==
    {<<"a", "b", "c">>, <<"t", "r", "u", "e">>, <<"T", "R", "U", "E">>,
     <<"T", "r", "u", "e">>, <<"f", "a", "l", "s", "e">>,
     <<"F", "a", "l", "s", "e">>, <<"y", "e", "s">>, <<"1">>}

\* Texts in braces: maps and CQL sets
BracedTexts ==
    {<<"{", DQ, "c", "a", "s", "s", "a", "n", "d", "r", "a", DQ, ":",
       "0", ".", "8", "}">>,
     <<"{", DQ, "a", DQ, ":", "1", "}">>,
     <<"{", "a", ":", "1", ",", "b", ":", "2", "}">>,
     <<"{", DQ, "a", DQ, ",", DQ, "b", DQ, "}">>, <<"{", "}">>, <<"{">>}

\* Texts in brackets: vectors and JSON arrays
BracketTexts ==
    {<<"[", "0", ".", "1", ",", SP, "0", ".", "2", "]">>,
     <<"[", "1", ",", SP, "2", "]">>, <<"[", "]">>,
     <<"[", DQ, "a", DQ, ",", SP, DQ, "b", DQ, "]">>, <<"[">>}

RawFields ==
    NullTexts \cup UUIDTexts \cup BadUUIDTexts \cup TimestampTexts
    \cup BadTimestampTexts \cup NumberTexts \cup WordTexts \cup BracedTexts
    \cup BracketTexts

\* Column names: two that end in id, two that end in date, two others
ColumnNames ==
    {<<"u", "s", "e", "r", "i", "d">>, <<"v", "i", "d", "e", "o", "i", "d">>,
     <<"a", "d", "d", "e", "d", "_", "d", "a", "t", "e">>,
     <<"c", "r", "e", "a", "t", "e", "d", "_", "d", "a", "t", "e">>,
     <<"n", "a", "m", "e">>, <<"v", "i", "e", "w", "s">>}

\* The types a column_types mapping may declare; "none": no declaration
DeclaredTypes ==
    {"none", "uuid", "timestamp", "int", "float", "boolean", "text",
     "set<text>", "map<text,float>"}

LInit ==
    /\ lcol \in ColumnNames
    /\ ldecl \in DeclaredTypes
    /\ lraw \in RawFields
    /\ lpath = "none"
    /\ lres = NotCalled

\* load_with_python.py decodes the field
LoadTableField ==
    /\ lpath = "none"
    /\ lres' = load_table_value(lraw, ldecl)
    /\ lpath' = "load_table"
    /\ UNCHANGED <<lcol, ldecl, lraw, vvars, cvars, wvars, kvars>>
    /\ UNCHANGED xvars

\* load_with_embeddings.py decodes the field; it has no declared types
EmbeddingsField ==
    /\ lpath = "none"
    /\ lres' = embeddings_value(lcol, lraw)
    /\ lpath' = "embeddings"
    /\ UNCHANGED <<lcol, ldecl, lraw, vvars, cvars, wvars, kvars>>
    /\ UNCHANGED xvars

\* load_to_collections.py decodes the field; it has no declared types
ParseRowField ==
    /\ lpath = "none"
    /\ lres' = parse_row_value(lraw)
    /\ lpath' = "parse_row"
    /\ UNCHANGED <<lcol, ldecl, lraw, vvars, cvars, wvars, kvars>>
    /\ UNCHANGED xvars

\* load_data_cql.py decodes the field of a uuid, timestamp or text column
CqlField ==
    /\ lpath = "none"
    /\ ldecl \in {"uuid", "timestamp", "text"}
    /\ lres' = cql_value(lraw, ldecl)
    /\ lpath' = "cql"
    /\ UNCHANGED <<lcol, ldecl, lraw, vvars, cvars, wvars, kvars>>
    /\ UNCHANGED xvars

LNext == LoadTableField \/ EmbeddingsField \/ ParseRowField \/ CqlField

InitLoader == VIdle /\ CIdle /\ WIdle /\ LInit /\ KIdle /\ XIdle

SpecLoader == InitLoader /\ [][LNext]_vars

\* ========================================================================
\* PART 14 - properties of the loaders' decoding
\* ========================================================================

LDecoded == lpath # "none"

\* The type a loader works with for the field: the declared one, or the one
\* load_with_embeddings.py infers from the column's name
TypeInUse ==
    IF lpath \in {"load_table", "cql"} THEN ldecl
    ELSE IF lpath = "embeddings" /\ EndsWith(lcol, <<"i", "d">>) THEN "uuid"
    ELSE IF lpath = "embeddings" /\ EndsWith(lcol, <<"d", "a", "t", "e">>) THEN "timestamp"
    ELSE "none"

\* C14 (as claimed): in every loader decoding path the empty text and the
\* word null in any letter case decode to None (for a document: to no
\* field), whatever the column's declared or name-inferred type and also
\* without a declared type.
C14_NullDecodesToNone ==
    (LDecoded /\ lraw \in NullTexts)
       => (lres = Ret(PyNone) \/ (lpath = "parse_row" /\ lres = Ret(PyAbsent)))

\* The text cannot be converted to the type: the conversion raises
Unconvertible(raw, type) ==
    /\ raw \notin NullTexts
    /\ type \in {"uuid", "timestamp", "int", "float"}
    /\ ~parse_csv_value(raw, type).ok

\* C15 (as claimed): decoding a field never raises; a text that cannot be
\* converted to its declared or inferred type (malformed UUID, malformed
\* timestamp, non-numeric text in a numeric column) is returned unchanged
\* as the field's value.
C15_DecodeFallsBackToRaw ==
    LDecoded
       => /\ lres.ok
          /\ Unconvertible(lraw, TypeInUse) => lres = Ret(PyStr(lraw))

\* The loader paths that infer the type from the field's text
Sniffing == lpath \in {"parse_row", "embeddings"}

UUIDShaped(t) == Len(t) = 36 /\ CountChar(t, "-") = 4

\* C16 (as claimed): without a declared type, the words true and false in
\* any letter case decode to the booleans, never to the string, in every
\* loader path that infers types from content; and a text of 36 characters
\* with four hyphens is taken as a UUID, not as a number.
C16_SniffedBooleanAndUUID ==
    /\ (Sniffing /\ Lower(lraw) = <<"t", "r", "u", "e">>) => lres = Ret(PyBool(TRUE))
    /\ (Sniffing /\ Lower(lraw) = <<"f", "a", "l", "s", "e">>) => lres = Ret(PyBool(FALSE))
    /\ (Sniffing /\ UUIDShaped(lraw))
          => (lres.ok /\ lres.v.k \in {"str", "UUID"})

IsNumber(v) == v.k \in {"int", "float"}

\* C17 (as claimed): structural sniffing decodes every text in braces with
\* colons into a map from keys to numbers, decimal values included, and a
\* bracketed list of bare numbers into a list of numbers, never into the
\* raw string.
C17_SniffedMapAndVector ==
    /\ (lpath = "parse_row" /\ StartsWith(lraw, <<"{">>) /\ EndsWith(lraw, <<"}">>)
           /\ Contains(lraw, ":"))
          => /\ lres.ok
             /\ lres.v.k = "dict"
             /\ \A i \in DOMAIN lres.v.pairs : IsNumber(lres.v.pairs[i][2])
    /\ (lpath = "parse_row"
           /\ lraw \in {<<"[", "0", ".", "1", ",", SP, "0", ".", "2", "]">>,
                        <<"[", "1", ",", SP, "2", "]">>})
          => /\ lres.ok
             /\ lres.v.k = "list"
             /\ \A i \in DOMAIN lres.v.items : IsNumber(lres.v.items[i])

\* Digits with at most one leading minus
IntegerText(t) ==
    AllDigits(t) \/ (t # <<>> /\ Head(t) = "-" /\ AllDigits(Tail(t)))

\* Digits around exactly one dot, with at most one leading minus
FloatText(t) ==
    LET u == IF t # <<>> /\ Head(t) = "-" THEN Tail(t) ELSE t
    IN CountChar(u, ".") = 1 /\ AllDigits(ReplaceChar(u, ".", <<>>))

\* C18 (as claimed): structural sniffing yields a float only for a text
\* with exactly one dot among digits and an integer only for digits with at
\* most one leading minus; every other text of digits, dots and minus signs
\* decodes to itself as text, and nothing is raised.
C18_SniffedNumbers ==
    (Sniffing /\ TypeInUse = "none" /\ lraw \in NumberTexts)
       => /\ lres.ok
          /\ lres.v.k = "float" => FloatText(lraw)
          /\ lres.v.k = "int" => IntegerText(lraw)
          /\ (~FloatText(lraw) /\ ~IntegerText(lraw)) => lres = Ret(PyStr(lraw))

\* ========================================================================
\* PART 15 - collect_cassandra_videos.py : main, steps 3 and 4
\* ========================================================================

\* Bound: the videos of the channel that match the filter
MaxVideos == 3

\* Video ids of the channel; OtherVideo is a video of an earlier run that
\* the filter of this run does not match
ChannelVideos == 1..MaxVideos
OtherVideo == 0

\* The uploads playlist lists every video once
FilteredLists == {q \in SeqsUpTo(ChannelVideos, MaxVideos) : NoDup(q)}

BatchSizes == {1, 2}

\* Lines 136-142, get_existing_video_ids: the stems of the JSON files
get_existing_video_ids(dir) == DOMAIN dir

\* Lines 145-152, load_existing_videos: the content of every JSON file, in
\* the order in which glob lists the files
load_existing_videos(dir) == Orderings(DOMAIN dir)

\* Lines 322-327 and 360-365: the state before the loop.  The files of the
\* directory were written by earlier runs, each under its video's id.
KInit ==
    /\ filtered_videos \in FilteredLists
    /\ resume \in BOOLEAN
    /\ skip_transcripts \in BOOLEAN
    /\ batch_size \in BatchSizes
    /\ \E ids \in SUBSET (ChannelVideos \cup {OtherVideo}) :
          /\ disk = [v \in ids |-> "old"]
          /\ existing_ids = IF resume THEN get_existing_video_ids(disk) ELSE {}
    /\ collected_videos = <<>>
    /\ fetched = <<>>
    /\ skipped = 0
    /\ batch_count = 0
    /\ pauses = <<>>
    /\ ki = 1
    /\ manifest = <<>>
    /\ kpc = "loop"

\* Lines 370-373: a video with a file is skipped in resume mode
SkipVideo ==
    /\ kpc = "loop"
    /\ ki <= Len(filtered_videos)
    /\ resume /\ filtered_videos[ki] \in existing_ids
    /\ skipped' = skipped + 1
    /\ ki' = ki + 1
    /\ UNCHANGED <<filtered_videos, resume, skip_transcripts, batch_size,
                   existing_ids, disk, collected_videos, fetched, batch_count,
                   pauses, manifest, kpc>>
    /\ UNCHANGED <<vvars, cvars, wvars, lvars>>
    /\ UNCHANGED xvars

\* Line 408: remaining = len(filtered_videos) - i - 1 - skipped
Remaining(i) == Len(filtered_videos) - i - 1 - skipped

\* Lines 375-413: the transcript is fetched (unless skipped), the JSON file
\* written, and after batch_size videos the run sleeps when `remaining` is
\* positive.  The loop index i of the code is ki - 1.
ProcessVideo ==
    /\ kpc = "loop"
    /\ ki <= Len(filtered_videos)
    /\ ~(resume /\ filtered_videos[ki] \in existing_ids)
    /\ LET video_id == filtered_videos[ki]
           pause == /\ ~skip_transcripts
                    /\ batch_count + 1 >= batch_size
                    /\ Remaining(ki - 1) > 0
       IN /\ fetched' = IF skip_transcripts THEN fetched ELSE Append(fetched, video_id)
          /\ collected_videos' = Append(collected_videos, video_id)
          /\ disk' = DictSet(disk, video_id, "new")
          /\ batch_count' = IF pause THEN 0 ELSE batch_count + 1
          /\ pauses' = IF pause THEN Append(pauses, ki) ELSE pauses
    /\ ki' = ki + 1
    /\ UNCHANGED <<filtered_videos, resume, skip_transcripts, batch_size,
                   existing_ids, skipped, manifest, kpc>>
    /\ UNCHANGED <<vvars, cvars, wvars, lvars>>
    /\ UNCHANGED xvars

\* Mutant: the lists concatenated without removing the duplicates
ManifestVideosAll(existing_videos) == existing_videos \o collected_videos

\* Lines 421-429: existing_videos + collected_videos, the first entry of
\* every video_id kept
ManifestVideos(existing_videos) == Distinct(existing_videos \o collected_videos, {})

\* Lines 415-435: the manifest is written after the loop
WriteManifest ==
    /\ kpc = "loop"
    /\ ki > Len(filtered_videos)
    /\ IF resume /\ existing_ids # {}
       THEN \E existing_videos \in load_existing_videos(disk) :
               manifest' = ManifestVideos(existing_videos)
       ELSE manifest' = collected_videos
    /\ kpc' = "done"
    /\ UNCHANGED <<filtered_videos, resume, skip_transcripts, batch_size,
                   existing_ids, disk, collected_videos, fetched, skipped,
                   batch_count, pauses, ki>>
    /\ UNCHANGED <<vvars, cvars, wvars, lvars>>
    /\ UNCHANGED xvars

KNext == SkipVideo \/ ProcessVideo \/ WriteManifest

InitCollector == VIdle /\ CIdle /\ WIdle /\ LIdle /\ KInit /\ XIdle

SpecCollector == InitCollector /\ [][KNext]_vars

\* ========================================================================
\* PART 16 - properties of the collector
\* ========================================================================

\* The positions from k on whose video the loop will process, not skip
ToProcess(k) ==
    {j \in k..Len(filtered_videos) : ~(resume /\ filtered_videos[j] \in existing_ids)}

\* C19 (as claimed): with transcripts collected, after every batch_size
\* processed videos the run pauses and resets its batch counter whenever a
\* video remains to be processed, in resume mode too: while a video remains
\* the counter stays below batch_size; and the run never pauses after the
\* last video of the list.
C19_PauseAfterEveryBatch ==
    /\ (kpc = "loop" /\ ~skip_transcripts /\ ToProcess(ki) # {})
          => batch_count < batch_size
    /\ \A p \in DOMAIN pauses : pauses[p] < Len(filtered_videos)

PIdle == VIdle /\ CIdle /\ WIdle /\ LIdle /\ KIdle

\* ========================================================================
\* PART 17 - relationships.py : RelationshipTracker
\* ========================================================================

\* Bound: the entities of one kind registered with the tracker
MaxTracked == 2

\* The dictionaries handed to add_user, add_video and add_comment; they hold
\* the keys their docstrings name, and the videos carry no tags
TrackedUsers == {[userid |-> u, email |-> EmailOf(u)] : u \in UserIds}
TrackedVideos == [videoid : VideoIds, userid : UserIds]
TrackedComments == [videoid : VideoIds, userid : UserIds]

\* defaultdict(list): d[key].append(x)
DictAppend(d, key, x) ==
    [q \in DOMAIN d \cup {key} |->
        IF q # key THEN d[q]
        ELSE IF key \in DOMAIN d THEN Append(d[key], x) ELSE <<x>>]

\* What validate returns: the dict of the error lists
ErrorDict(d) == [k |-> "dict", errors |-> d]

\* Lines 10-23, __init__
RInit ==
    /\ rt_users = <<>>
    /\ rt_videos = <<>>
    /\ rt_comments = <<>>
    /\ rt_user_ids = {}
    /\ rt_user_emails = {}
    /\ rt_video_ids = {}
    /\ rt_video_by_user = <<>>
    /\ rt_comments_by_video = <<>>
    /\ rt_comments_by_user = <<>>
    /\ rt_ret = NotCalled

\* Lines 25-34, add_user
add_user ==
    /\ Len(rt_users) < MaxTracked
    /\ \E user \in TrackedUsers :
          /\ rt_users' = Append(rt_users, user)
          /\ rt_user_ids' = rt_user_ids \cup {user.userid}
          /\ rt_user_emails' = rt_user_emails \cup {user.email}
    /\ rt_ret' = Ret(PyNone)
    /\ UNCHANGED <<rt_videos, rt_comments, rt_video_ids, rt_video_by_user,
                   rt_comments_by_video, rt_comments_by_user>>
    /\ UNCHANGED <<pvars, rrest>>

\* Lines 36-49, add_video; line 48: no 'tags' key, self.tags stays empty
add_video ==
    /\ Len(rt_videos) < MaxTracked
    /\ \E video \in TrackedVideos :
          /\ rt_videos' = Append(rt_videos, video)
          /\ rt_video_ids' = rt_video_ids \cup {video.videoid}
          /\ rt_video_by_user' =
                DictAppend(rt_video_by_user, video.userid, video.videoid)
    /\ rt_ret' = Ret(PyNone)
    /\ UNCHANGED <<rt_users, rt_comments, rt_user_ids, rt_user_emails,
                   rt_comments_by_video, rt_comments_by_user>>
    /\ UNCHANGED <<pvars, rrest>>

\* Lines 51-60, add_comment
add_comment ==
    /\ Len(rt_comments) < MaxTracked
    /\ \E comment \in TrackedComments :
          /\ rt_comments' = Append(rt_comments, comment)
          /\ rt_comments_by_video' =
                DictAppend(rt_comments_by_video, comment.videoid, comment)
          /\ rt_comments_by_user' =
                DictAppend(rt_comments_by_user, comment.userid, comment)
    /\ rt_ret' = Ret(PyNone)
    /\ UNCHANGED <<rt_users, rt_videos, rt_user_ids, rt_user_emails,
                   rt_video_ids, rt_video_by_user>>
    /\ UNCHANGED <<pvars, rrest>>

\* Lines 72-74: the messages appended to errors['videos'] for one video
VideoErrors(video) ==
    IF video.userid \notin rt_user_ids
    THEN <<<<"Video ", video.videoid, " references invalid user ", video.userid>>>>
    ELSE <<>>

\* A variant of lines 77-81 that reports at most one error for a comment
CommentErrorsFirstOnly(comment) ==
    IF comment.videoid \notin rt_video_ids
    THEN <<<<"Comment references invalid video ", comment.videoid>>>>
    ELSE IF comment.userid \notin rt_user_ids
    THEN <<<<"Comment references invalid user ", comment.userid>>>>
    ELSE <<>>

\* Lines 77-81: the messages appended to errors['comments'] for one comment
CommentErrors(comment) ==
    (IF comment.videoid \notin rt_video_ids
     THEN <<<<"Comment references invalid video ", comment.videoid>>>>
     ELSE <<>>)
    \o (IF comment.userid \notin rt_user_ids
        THEN <<<<"Comment references invalid user ", comment.userid>>>>
        ELSE <<>>)

\* Lines 72-74 and 77-81: the two loops
RECURSIVE AllVideoErrors(_)
AllVideoErrors(videos) ==
    IF videos = <<>> THEN <<>>
    ELSE VideoErrors(Head(videos)) \o AllVideoErrors(Tail(videos))

RECURSIVE AllCommentErrors(_)
AllCommentErrors(comments) ==
    IF comments = <<>> THEN <<>>
    ELSE CommentErrors(Head(comments)) \o AllCommentErrors(Tail(comments))

\* Lines 62-83, validate: a key of the defaultdict exists once a message was
\* appended under it
validate ==
    /\ LET found == [t \in {"videos", "comments"} |->
                        IF t = "videos" THEN AllVideoErrors(rt_videos)
                        ELSE AllCommentErrors(rt_comments)]
           errs == [t \in {q \in DOMAIN found : found[q] # <<>>} |-> found[t]]
       IN rt_ret' = Ret(ErrorDict(errs))
    /\ UNCHANGED <<rt_users, rt_videos, rt_comments, rt_user_ids, rt_user_emails,
                   rt_video_ids, rt_video_by_user, rt_comments_by_video,
                   rt_comments_by_user>>
    /\ UNCHANGED <<pvars, rrest>>

RNext == add_user \/ add_video \/ add_comment \/ validate

InitTracker == PIdle /\ RInit /\ TIdle /\ OIdle /\ YIdle /\ EIdle /\ GIdle

SpecTracker == InitTracker /\ [][RNext]_vars

\* ========================================================================
\* PART 18 - properties of the tracker
\* ========================================================================

RegisteredUserIds == {rt_users[j].userid : j \in DOMAIN rt_users}
RegisteredVideoIds == {rt_videos[j].videoid : j \in DOMAIN rt_videos}

\* The broken references: <<position in its list, referencing key>>
BrokenVideoRefs ==
    {<<i, "userid">> : i \in {j \in DOMAIN rt_videos :
                                 rt_videos[j].userid \notin RegisteredUserIds}}
BrokenCommentRefs ==
    {<<i, "videoid">> : i \in {j \in DOMAIN rt_comments :
                                  rt_comments[j].videoid \notin RegisteredVideoIds}}
    \cup {<<i, "userid">> : i \in {j \in DOMAIN rt_comments :
                                      rt_comments[j].userid \notin RegisteredUserIds}}

ValidateReturned == rt_ret.ok /\ rt_ret.v.k = "dict"

ErrorsUnder(t) ==
    IF t \in DOMAIN rt_ret.v.errors THEN rt_ret.v.errors[t] ELSE <<>>

\* C21: the index sets always hold the ids of the registered users and
\* videos; validate returns the empty dict exactly when no registered video
\* and no registered comment has a broken reference, and otherwise one
\* message per broken reference, under 'videos' for a video and under
\* 'comments' for a comment, whatever the order of the add calls was.
C21_TrackerValidate ==
    /\ rt_user_ids = RegisteredUserIds
    /\ rt_video_ids = RegisteredVideoIds
    /\ ValidateReturned
          => /\ (rt_ret.v.errors = <<>>)
                   <=> (BrokenVideoRefs = {} /\ BrokenCommentRefs = {})
             /\ DOMAIN rt_ret.v.errors \subseteq {"videos", "comments"}
             /\ Len(ErrorsUnder("videos")) = Cardinality(BrokenVideoRefs)
             /\ Len(ErrorsUnder("comments")) = Cardinality(BrokenCommentRefs)
             /\ \A r \in BrokenVideoRefs :
                   <<"Video ", rt_videos[r[1]].videoid,
                     " references invalid user ", rt_videos[r[1]].userid>>
                      \in Range(ErrorsUnder("videos"))
             /\ \A r \in BrokenCommentRefs :
                   <<"Comment references invalid " \o
                        (IF r[2] = "videoid" THEN "video " ELSE "user "),
                     rt_comments[r[1]][r[2]]>>
                      \in Range(ErrorsUnder("comments"))

\* Witness of C21: validate returned for one user, one video of that user
\* and one comment on that video by an unknown user: one message, under
\* 'comments', for the comment's user
C21_Witness ==
    /\ ValidateReturned
    /\ Len(rt_users) = 1 /\ Len(rt_videos) = 1 /\ Len(rt_comments) = 1
    /\ rt_videos[1].userid = rt_users[1].userid
    /\ rt_comments[1].videoid = rt_videos[1].videoid
    /\ rt_comments[1].userid # rt_users[1].userid
    /\ DOMAIN rt_ret.v.errors = {"comments"}
    /\ Len(rt_ret.v.errors["comments"]) = 1

\* ========================================================================
\* PART 19 - transcript_collector.py : TranscriptCollector
\* ========================================================================

\* Bounds: the largest max_retries, and the videos handed to get_transcript
MaxRetries == 2
MaxCalls == 2

\* Lines 85-92: rate_limit_indicators
rate_limit_indicators ==
    <<
      <<"b", "l", "o", "c", "k", "i", "n", "g", " ", "r", "e", "q", "u", "e",
        "s", "t", "s">>,
      <<"I", "P">>,
      <<"t", "o", "o", " ", "m", "a", "n", "y", " ", "r", "e", "q", "u", "e",
        "s", "t", "s">>,
      <<"b", "l", "o", "c", "k", "e", "d">>,
      <<"R", "e", "q", "u", "e", "s", "t", "B", "l", "o", "c", "k", "e", "d">>,
      <<"I", "p", "B", "l", "o", "c", "k", "e", "d">>
    >>

\* str: `sub in t`
IsInfix(sub, t) == \E i \in 1..(Len(t) + 1) : IsPrefixAt(t, sub, i)

\* Lines 83-93, _is_rate_limit_error
is_rate_limit_error(error_msg) ==
    \E n \in DOMAIN rate_limit_indicators :
       IsInfix(Lower(rate_limit_indicators[n]), Lower(error_msg))

\* str(e) of the exceptions that are none of the library's four: the
\* server's answer to too many requests, an XML parse error, and a message
\* that holds "ip" inside a word
ErrorMessages ==
    {
      <<"4", "2", "9", " ", "T", "o", "o", " ", "M", "a", "n", "y", " ", "R",
        "e", "q", "u", "e", "s", "t", "s">>,
      <<"n", "o", " ", "e", "l", "e", "m", "e", "n", "t", " ", "f", "o", "u",
        "n", "d">>,
      <<"b", "a", "d", " ", "t", "r", "a", "n", "s", "c", "r", "i", "p", "t">>
    }

\* The messages that _is_rate_limit_error takes for a rate limit
RateLimitMessages == {m \in ErrorMessages : is_rate_limit_error(m)}

\* What the try block of one request can raise
Exceptions ==
    [type : {"TranscriptsDisabled", "VideoUnavailable", "IpBlocked",
             "RequestBlocked"}, msg : {<<>>}]
    \cup [type : {"Exception"}, msg : ErrorMessages]

\* What happens to one request: api.list raises (line 126); or the list
\* holds no transcript (line 165); or fetching the transcript raises
\* (lines 178-184); or the transcript is fetched
Outcomes ==
    [at : {"list", "fetch"}, exc : Exceptions]
    \cup {[at |-> "none"], [at |-> "fetched"]}

\* The dicts that get_transcript returns, by the keys that tell them apart
Result(available, error_type) ==
    [available |-> available, error_type |-> error_type]

\* Lines 28-50, __init__
TInit ==
    /\ max_retries \in 0..MaxRetries
    /\ consecutive_errors = 0
    /\ request_count = 0
    /\ ip_blocked_count = 0
    /\ retry_count = 0
    /\ tc_backoff = 0
    /\ tc_attempts = 0
    /\ tc_all_blocked = TRUE
    /\ tc_last = <<>>
    /\ tc_ret = NotCalled
    /\ tc_calls = 0
    /\ tpc = "idle"

\* A caller hands a video to get_transcript: line 95, retry_count = 0
GetTranscript ==
    /\ tpc \in {"idle", "returned"}
    /\ tc_calls < MaxCalls
    /\ tc_calls' = tc_calls + 1
    /\ retry_count' = 0
    /\ tc_attempts' = 0
    /\ tc_all_blocked' = TRUE
    /\ tc_ret' = NotCalled
    /\ tpc' = "running"
    /\ UNCHANGED <<max_retries, consecutive_errors, request_count,
                   ip_blocked_count, tc_backoff, tc_last>>
    /\ UNCHANGED <<pvars, trest>>

\* Lines 74-77: the backoff added to the delay
Backoff(count) ==
    IF count > 0 THEN (IF 2 ^ count < 60 THEN 2 ^ count ELSE 60) ELSE 0

\* Whether the request was refused: the library's IpBlocked or
\* RequestBlocked, or another exception with a rate-limit-like message
Blocked(o) ==
    /\ o.at \in {"list", "fetch"}
    /\ o.exc.type \in {"IpBlocked", "RequestBlocked"}
RateLimited(o) ==
    /\ o.at \in {"list", "fetch"}
    /\ o.exc.type = "Exception"
    /\ o.exc.msg \in RateLimitMessages

\* The counter after the request: line 129 once api.list returned, then the
\* handler of what was raised (lines 205, 218, 232, 257, 265, 267)
ErrorsAfter(o, count) ==
    LET listed == IF o.at = "list" THEN count ELSE 0
    IN IF Blocked(o) \/ RateLimited(o) THEN listed + 1 ELSE 0

\* The dict returned when the request is not retried
ResultOf(o) ==
    CASE o.at = "fetched" -> Result(TRUE, "None")
      [] o.at = "none" -> Result(FALSE, "no_transcript")
      [] o.exc.type = "TranscriptsDisabled" -> Result(FALSE, "disabled")
      [] o.exc.type = "VideoUnavailable" -> Result(FALSE, "video_unavailable")
      [] Blocked(o) -> Result(FALSE, "ip_blocked")
      [] RateLimited(o) -> Result(FALSE, "ip_blocked")
      [] OTHER -> Result(FALSE, "unknown")

\* A variant of lines 235 and 256 that retries once more
RetryOnceMore(o) ==
    (Blocked(o) \/ RateLimited(o)) /\ retry_count <= max_retries

\* Lines 235 and 256: whether get_transcript calls itself again
Retry(o) ==
    (Blocked(o) \/ RateLimited(o)) /\ retry_count < max_retries

\* Lines 115-278: one activation of get_transcript, up to its return or to
\* the recursive call of line 239 or 261
Request ==
    /\ tpc = "running"
    /\ \E o \in Outcomes :
          LET retry == Retry(o)
          IN /\ tc_backoff' = Backoff(consecutive_errors)
             /\ request_count' = request_count + 1
             /\ consecutive_errors' = ErrorsAfter(o, consecutive_errors)
             /\ ip_blocked_count' = ip_blocked_count + (IF Blocked(o) THEN 1 ELSE 0)
             /\ tc_attempts' = tc_attempts + 1
             /\ tc_all_blocked' = (tc_all_blocked /\ (Blocked(o) \/ RateLimited(o)))
             /\ tc_last' = [o |-> o, before |-> consecutive_errors]
             /\ IF retry
                THEN /\ retry_count' = retry_count + 1
                     /\ UNCHANGED <<tc_ret, tpc>>
                ELSE /\ tc_ret' = Ret(ResultOf(o))
                     /\ tpc' = "returned"
                     /\ UNCHANGED retry_count
    /\ UNCHANGED <<max_retries, tc_calls>>
    /\ UNCHANGED <<pvars, trest>>

TNext == GetTranscript \/ Request

InitTranscripts == PIdle /\ RIdle /\ TInit /\ OIdle /\ YIdle /\ EIdle /\ GIdle

SpecTranscripts == InitTranscripts /\ [][TNext]_vars

\* get_transcript runs to its return: no step of it waits for ever
SpecTranscriptsFair ==
    InitTranscripts /\ [][TNext]_vars /\ WF_vars(Request)

\* ========================================================================
\* PART 20 - properties of the transcript collector
\* ========================================================================

Returned == tpc = "returned" /\ tc_ret.ok

\* C22: get_transcript makes at most max_retries + 1 requests for one video,
\* whatever mix of blocked and rate-limited requests occurs; when every
\* request was refused it returns a dict with available = False and
\* error_type 'ip_blocked', and raises nothing; and every call returns.
C22_BoundedRetries ==
    /\ [](/\ tc_attempts <= max_retries + 1
          /\ tpc = "returned" => tc_ret.ok
          /\ (tpc = "returned" /\ tc_all_blocked)
                => tc_ret = Ret(Result(FALSE, "ip_blocked")))
    /\ (tpc = "running") ~> (tpc = "returned")

\* Witness of C22: the first video used up every retry, refused both by
\* the library's exceptions and by other exceptions with a rate-limit-like
\* message, and get_transcript returned
C22_Witness ==
    /\ Returned
    /\ tc_calls = 1
    /\ max_retries = MaxRetries
    /\ tc_attempts = max_retries + 1
    /\ tc_all_blocked
    /\ 0 < ip_blocked_count /\ ip_blocked_count < tc_attempts
    /\ tc_ret = Ret(Result(FALSE, "ip_blocked"))

\* C23 (as claimed): when get_transcript returns an outcome that is not a
\* rate-limit outcome the counter of consecutive errors is 0; every blocked
\* or rate-limited request leaves the counter one above what it was before
\* the request; and the counter is above 0, so that a backoff is added to
\* the next delay, only after such a request.
C23_ConsecutiveErrors ==
    /\ (Returned /\ tc_ret.v.error_type # "ip_blocked") => consecutive_errors = 0
    /\ (tc_last # <<>> /\ (Blocked(tc_last.o) \/ RateLimited(tc_last.o)))
          => consecutive_errors = tc_last.before + 1
    /\ consecutive_errors > 0
          => /\ tc_last # <<>>
             /\ Blocked(tc_last.o) \/ RateLimited(tc_last.o)
    /\ tc_last # <<>> => tc_backoff = Backoff(tc_last.before)

\* ========================================================================
\* PART 21 - ollama_client.py : OllamaClient.generate
\* ========================================================================

\* Lines 19-20
MAX_RETRIES == 3
RETRY_DELAY == 5

\* The exception classes of the requests library that a request can raise,
\* each with the classes it derives from (itself included)
RequestErrors ==
    [ConnectionError |-> {"ConnectionError", "RequestException"},
     ProxyError |-> {"ProxyError", "ConnectionError", "RequestException"},
     ConnectTimeout |-> {"ConnectTimeout", "ConnectionError", "Timeout",
                         "RequestException"},
     ReadTimeout |-> {"ReadTimeout", "Timeout", "RequestException"},
     HTTPError |-> {"HTTPError", "RequestException"},
     JSONDecodeError |-> {"JSONDecodeError", "InvalidJSONError",
                          "RequestException"}]

\* isinstance(e, cls)
IsInstance(e, cls) == cls \in RequestErrors[e]

\* The JSON objects the server answers with: with or without 'response'
Answers == {[response |-> "text"], [response |-> ""], [done |-> "true"]}

\* What happens to one requests.post: it raises (lines 93-95), or the
\* server's answer is decoded
Posts ==
    {[ok |-> FALSE, exc |-> e] : e \in DOMAIN RequestErrors}
    \cup {[ok |-> TRUE, data |-> d] : d \in Answers}

\* The state in which generate is called
OInit ==
    /\ attempt = 0
    /\ last_error = "None"
    /\ og_posts = <<>>
    /\ og_sleeps = <<>>
    /\ og_ret = NotCalled
    /\ opc = "idle"

\* Lines 83-91: generate is called
Generate ==
    /\ opc = "idle"
    /\ attempt' = 0
    /\ last_error' = "None"
    /\ opc' = "loop"
    /\ UNCHANGED <<og_posts, og_sleeps, og_ret>>
    /\ UNCHANGED <<pvars, orest>>

\* A variant of lines 97-111 in which every request error is retried
CaughtAllRetried(e) ==
    IF IsInstance(e, "Timeout") THEN "Timeout" ELSE "RequestException"

\* Lines 97, 102, 107: the first except clause that matches the exception
Caught(e) ==
    IF IsInstance(e, "ConnectionError") THEN "ConnectionError"
    ELSE IF IsInstance(e, "Timeout") THEN "Timeout"
    ELSE "RequestException"

\* Lines 91-111: one pass of the loop
Post ==
    /\ opc = "loop"
    /\ attempt < MAX_RETRIES
    /\ \E p \in Posts :
          /\ og_posts' = Append(og_posts, p)
          /\ IF p.ok
             THEN \* line 96: data.get('response', '')
                  /\ og_ret' = Ret(IF "response" \in DOMAIN p.data
                                   THEN p.data.response ELSE "")
                  /\ opc' = "done"
                  /\ UNCHANGED <<attempt, last_error, og_sleeps>>
             ELSE IF Caught(p.exc) = "ConnectionError"
             THEN \* lines 98-101
                  /\ og_ret' = Raise("ConnectionError")
                  /\ opc' = "done"
                  /\ UNCHANGED <<attempt, last_error, og_sleeps>>
             ELSE \* lines 103-106 and 108-111
                  /\ last_error' = p.exc
                  /\ og_sleeps' =
                        IF attempt < MAX_RETRIES - 1
                        THEN Append(og_sleeps,
                                    IF Caught(p.exc) = "Timeout"
                                    THEN RETRY_DELAY * (attempt + 1)
                                    ELSE RETRY_DELAY)
                        ELSE og_sleeps
                  /\ attempt' = attempt + 1
                  /\ UNCHANGED <<og_ret, opc>>
    /\ UNCHANGED <<pvars, orest>>

\* Line 113: the loop has ended
Failed ==
    /\ opc = "loop"
    /\ attempt = MAX_RETRIES
    /\ og_ret' = Raise("RuntimeError")
    /\ opc' = "done"
    /\ UNCHANGED <<attempt, last_error, og_posts, og_sleeps>>
    /\ UNCHANGED <<pvars, orest>>

ONext == Generate \/ Post \/ Failed

InitOllama == PIdle /\ RIdle /\ TIdle /\ OInit /\ YIdle /\ EIdle /\ GIdle

SpecOllama == InitOllama /\ [][ONext]_vars

\* ========================================================================
\* PART 22 - properties of the Ollama client
\* ========================================================================

\* C24: generate makes at most MAX_RETRIES requests; it returns the
\* response text of the first request that succeeds; a connection error
\* ends the call at once with ConnectionError; when MAX_RETRIES requests
\* have failed by timeout or by another request error it raises
\* RuntimeError, and returns no value.
C24_GenerateRetries ==
    /\ Len(og_posts) <= MAX_RETRIES
    /\ \A i \in DOMAIN og_posts :
          \* a request is made only after failures that are retried
          i < Len(og_posts)
             => /\ ~og_posts[i].ok
                /\ ~IsInstance(og_posts[i].exc, "ConnectionError")
    /\ (og_posts # <<>> /\ og_posts[Len(og_posts)].ok)
          => /\ opc = "done"
             /\ og_ret.ok
             /\ LET data == og_posts[Len(og_posts)].data
                IN og_ret.v = (IF "response" \in DOMAIN data THEN data.response ELSE "")
    /\ (og_posts # <<>> /\ ~og_posts[Len(og_posts)].ok
           /\ IsInstance(og_posts[Len(og_posts)].exc, "ConnectionError"))
          => opc = "done" /\ og_ret = Raise("ConnectionError")
    /\ (opc = "done" /\ Len(og_posts) = MAX_RETRIES
           /\ \A i \in DOMAIN og_posts :
                 /\ ~og_posts[i].ok
                 /\ ~IsInstance(og_posts[i].exc, "ConnectionError"))
          => og_ret = Raise("RuntimeError")
    /\ og_ret.ok => og_posts[Len(og_posts)].ok
    /\ og_ret = Raise("RuntimeError") => Len(og_posts) = MAX_RETRIES

\* Witness of C24: three requests failed, by a read timeout and by an HTTP
\* error among them, and generate raised RuntimeError after sleeping twice
C24_Witness ==
    /\ opc = "done"
    /\ og_ret = Raise("RuntimeError")
    /\ Len(og_posts) = MAX_RETRIES
    /\ og_posts[1].exc = "ReadTimeout"
    /\ og_posts[2].exc = "HTTPError"
    /\ og_posts[3].exc = "ReadTimeout"
    /\ og_sleeps = <<RETRY_DELAY, RETRY_DELAY>>

\* ========================================================================
\* PART 23 - youtube_collector.py : YouTubeCollector.collect_all_videos
\* ========================================================================

\* Bounds: the videos that one call of the API lists, and the search
\* queries of the configuration
MaxListed == 3
MaxQueries == 2

\* The video ids that YouTube knows
ListedIds == {"y1", "y2", "y3"}

\* What get_channel_videos or search_videos can return: a list of videos,
\* the same video possibly more than once, the empty list after an HttpError
ListedVideos == SeqsUpTo(ListedIds, MaxListed)

\* A video dict, with the call that listed it
Video(id, source) == [video_id |-> id, source |-> source]

\* The state in which collect_all_videos is called
YInit ==
    /\ channel_id \in {"None", "UC"}
    /\ search_queries \in 0..MaxQueries
    /\ max_videos \in 0..Cardinality(ListedIds)
    /\ all_videos = <<>>
    /\ video_ids_seen = {}
    /\ yi = 0
    /\ yc_ran = <<>>
    /\ yc_ret = NotCalled
    /\ ypc = "idle"

\* A variant of lines 233-236 and 246-249 that keeps a video seen before
RECURSIVE AddAll(_, _, _, _)
AddAll(videos, listed, source, limit) ==
    IF listed = <<>> THEN videos
    ELSE AddAll(IF Len(videos) < limit
                THEN Append(videos, Video(Head(listed), source))
                ELSE videos,
                Tail(listed), source, limit)

\* Lines 233-236 and 246-249: the videos not seen before are appended, in
\* the search loop only while fewer than `limit` videos are collected
RECURSIVE AddUnseen(_, _, _, _)
AddUnseen(videos, listed, source, limit) ==
    IF listed = <<>> THEN videos
    ELSE AddUnseen(IF /\ \A j \in DOMAIN videos : videos[j].video_id # Head(listed)
                      /\ Len(videos) < limit
                   THEN Append(videos, Video(Head(listed), source))
                   ELSE videos,
                   Tail(listed), source, limit)

\* Lines 220-236: the channel's videos, all of them
CollectChannel ==
    /\ ypc = "idle"
    /\ IF channel_id # "None"
       THEN \E channel_videos \in ListedVideos :
               all_videos' = AddUnseen(<<>>, channel_videos, "channel",
                                       Len(channel_videos) + 1)
       ELSE all_videos' = <<>>
    /\ video_ids_seen' = {all_videos'[j].video_id : j \in DOMAIN all_videos'}
    /\ ypc' = "search"
    /\ UNCHANGED <<channel_id, search_queries, max_videos, yi, yc_ran, yc_ret>>
    /\ UNCHANGED <<pvars, yrest>>

\* Lines 239-249: one query of the loop
SearchQuery ==
    /\ ypc = "search"
    /\ yi < search_queries
    /\ Len(all_videos) < max_videos
    /\ \E search_videos \in ListedVideos :
          all_videos' = AddUnseen(all_videos, search_videos, "search", max_videos)
    /\ video_ids_seen' = {all_videos'[j].video_id : j \in DOMAIN all_videos'}
    /\ yc_ran' = Append(yc_ran, Len(all_videos))
    /\ yi' = yi + 1
    /\ UNCHANGED <<channel_id, search_queries, max_videos, yc_ret, ypc>>
    /\ UNCHANGED <<pvars, yrest>>

\* Lines 239-242 and 252-255: the loop ends or is left, and the first
\* max_videos videos are returned
ReturnVideos ==
    /\ ypc = "search"
    /\ yi = search_queries \/ Len(all_videos) >= max_videos
    /\ yc_ret' = Ret(SubSeq(all_videos, 1,
                            IF Len(all_videos) < max_videos
                            THEN Len(all_videos) ELSE max_videos))
    /\ ypc' = "done"
    /\ UNCHANGED <<channel_id, search_queries, max_videos, all_videos,
                   video_ids_seen, yi, yc_ran>>
    /\ UNCHANGED <<pvars, yrest>>

YNext == CollectChannel \/ SearchQuery \/ ReturnVideos

InitYouTube == PIdle /\ RIdle /\ TIdle /\ OIdle /\ YInit /\ EIdle /\ GIdle

SpecYouTube == InitYouTube /\ [][YNext]_vars

\* ========================================================================
\* PART 24 - properties of the YouTube collector
\* ========================================================================

\* C25: the list that collect_all_videos returns holds no video_id twice
\* and at most max_videos videos, the channel's videos before the search
\* results; and a search query is run only while fewer than max_videos
\* videos are collected.
C25_UniqueAndLimited ==
    /\ \A n \in DOMAIN yc_ran : yc_ran[n] < max_videos
    /\ ypc = "done"
          => /\ yc_ret.ok
             /\ Len(yc_ret.v) <= max_videos
             /\ \A i, j \in DOMAIN yc_ret.v :
                   /\ i # j => yc_ret.v[i].video_id # yc_ret.v[j].video_id
                   /\ (i < j /\ yc_ret.v[j].source = "channel")
                         => yc_ret.v[i].source = "channel"

\* Witness of C25: two queries were run and the list returned is full: a
\* video of the channel, then two videos that the searches added
C25_Witness ==
    /\ ypc = "done"
    /\ Len(yc_ran) = 2
    /\ max_videos = Cardinality(ListedIds)
    /\ Len(yc_ret.v) = max_videos
    /\ yc_ret.v[1].source = "channel"
    /\ yc_ret.v[2].source = "search"
    /\ yc_ret.v[3].source = "search"

\* ========================================================================
\* PART 25 - embeddings.py : EmbeddingGenerator.generate_batch
\* ========================================================================

\* Bound: the texts of one batch
MaxBatch == 3

\* The texts of a batch: empty, blank, and with words
BatchTexts ==
    {<<>>, <<SP>>, <<TAB, NL>>, <<"a">>, <<SP, "a", SP>>, <<"b", SP, "c">>}

\* The vector that the model computes for a text
Embedding(text) == [k |-> "embedding", text |-> text]

\* Lines 25-33, __init__, and the list handed to generate_batch
EInit ==
    /\ eg_model \in {"None", "model"}
    /\ eg_texts \in SeqsUpTo(BatchTexts, MaxBatch)
    /\ eg_raised = FALSE
    /\ eg_ret = NotCalled

\* Line 68, 80, 95: [None] * len(texts)
Nones(texts) == [i \in 1..Len(texts) |-> PyNone]

\* Lines 74-77: the indices (from 0) of the texts that are neither empty
\* nor blank
RECURSIVE ValidIndices(_, _)
ValidIndices(texts, i) ==
    IF i > Len(texts) THEN <<>>
    ELSE (IF texts[i] # <<>> /\ Strip(texts[i]) # <<>> THEN <<i - 1>> ELSE <<>>)
         \o ValidIndices(texts, i + 1)

\* Line 84, self.model.encode: one row for each text, in order
ModelEncode(valid_texts) ==
    [j \in DOMAIN valid_texts |-> Embedding(valid_texts[j])]

\* A variant of lines 88-89 that fills the results from the front
RECURSIVE PutBackInOrder(_, _, _, _)
PutBackInOrder(results, valid_indices, embeddings, j) ==
    IF j > Len(valid_indices) \/ j > Len(embeddings) THEN results
    ELSE PutBackInOrder([results EXCEPT ![j] = embeddings[j]],
                        valid_indices, embeddings, j + 1)

\* Lines 88-89: for i, embedding in zip(valid_indices, embeddings)
RECURSIVE PutBack(_, _, _, _)
PutBack(results, valid_indices, embeddings, j) ==
    IF j > Len(valid_indices) \/ j > Len(embeddings) THEN results
    ELSE PutBack([results EXCEPT ![valid_indices[j] + 1] = embeddings[j]],
                 valid_indices, embeddings, j + 1)

\* Lines 57-95, generate_batch
generate_batch(model, texts, raised) ==
    IF model = "None" THEN Nones(texts)
    ELSE LET valid_indices == ValidIndices(texts, 1)
             valid_texts == [j \in DOMAIN valid_indices |->
                                texts[valid_indices[j] + 1]]
         IN IF valid_texts = <<>> THEN Nones(texts)
            ELSE IF raised THEN Nones(texts)
            ELSE PutBack(Nones(texts), valid_indices,
                         ModelEncode(valid_texts), 1)

\* generate_batch is called; encode raises or not
GenerateBatch ==
    /\ eg_ret = NotCalled
    /\ \E raised \in BOOLEAN :
          /\ eg_raised' = (raised /\ eg_model # "None"
                              /\ ValidIndices(eg_texts, 1) # <<>>)
          /\ eg_ret' = Ret(generate_batch(eg_model, eg_texts, raised))
    /\ UNCHANGED <<eg_model, eg_texts>>
    /\ UNCHANGED <<pvars, erest>>

ENext == GenerateBatch

InitEmbeddings == PIdle /\ RIdle /\ TIdle /\ OIdle /\ YIdle /\ EInit /\ GIdle

SpecEmbeddings == InitEmbeddings /\ [][ENext]_vars

\* ========================================================================
\* PART 26 - properties of the embedding generator
\* ========================================================================

\* A text that is empty or holds only whitespace
Blank(text) == \A i \in DOMAIN text : IsSpace(text[i])

\* C26: generate_batch returns a list as long as its input; without a model
\* or when encode raises every position holds None; otherwise position i
\* holds None exactly when texts[i] is empty or blank and else the
\* embedding of texts[i].
C26_BatchPositions ==
    eg_ret.ok
       => /\ Len(eg_ret.v) = Len(eg_texts)
          /\ \A i \in DOMAIN eg_texts :
                IF eg_model = "None" \/ eg_raised \/ Blank(eg_texts[i])
                THEN eg_ret.v[i] = PyNone
                ELSE eg_ret.v[i] = Embedding(eg_texts[i])

\* Witness of C26: a batch with a blank text between two texts with words;
\* the embeddings are at the first and at the last position
C26_Witness ==
    /\ eg_ret.ok
    /\ eg_model = "model"
    /\ Len(eg_texts) = 3
    /\ eg_texts[2] = <<TAB, NL>>
    /\ eg_ret.v = <<Embedding(eg_texts[1]), PyNone, Embedding(eg_texts[3])>>
    /\ eg_texts[1] # eg_texts[3]

\* ========================================================================
\* PART 27 - data_generator.py : DataGenerator.generate_ratings
\* ========================================================================

\* Bound: the videos handed to generate_ratings
MaxRatedVideos == 2

\* Line 319: random.randint(5, 30)
MinToRate == 5
MaxToRate == 30

\* Ratings that line 327 can draw: the lowest, the middle and the highest
RatingValues == {1, 3, 5}

\* The lists handed over by generate.py: generate_users and
\* process_youtube_videos give every user and every video a fresh uuid4
RatedVideos ==
    {[i \in 1..n |-> [videoid |-> i]] : n \in 0..MaxRatedVideos}
RatingUsers ==
    {<<>>, <<[userid |-> "U1"]>>, <<[userid |-> "U1"], [userid |-> "U2"]>>}

\* Line 320, random.sample(videos, k): k positions of the list, none twice
Sample(videos, k) ==
    {q \in [1..k -> DOMAIN videos] : \A i, j \in 1..k : i # j => q[i] # q[j]}

\* The state in which generate_ratings is called
GInit ==
    /\ gr_videos \in RatedVideos
    /\ gr_users \in RatingUsers
    /\ ratings_by_user = <<>>
    /\ video_ratings = <<>>
    /\ gu = 0
    /\ gpc = "idle"

\* Lines 311-315
GenerateRatings ==
    /\ gpc = "idle"
    /\ ratings_by_user' = <<>>
    /\ gu' = 0
    /\ gpc' = "users"
    /\ UNCHANGED <<gr_videos, gr_users, video_ratings>>
    /\ UNCHANGED <<pvars, grest>>

\* Lines 322-330: the rows of one user; drawn[n] is 0 when line 323 skips
\* the n-th video of the sample, and else the rating of line 327
RECURSIVE UserRatings(_, _, _, _)
UserRatings(user, videos_to_rate, drawn, n) ==
    IF n > Len(videos_to_rate) THEN <<>>
    ELSE (IF drawn[n] # 0
          THEN <<[videoid |-> videos_to_rate[n].videoid,
                  userid |-> user.userid,
                  rating |-> drawn[n],
                  rating_date |-> "date_time"]>>
          ELSE <<>>)
         \o UserRatings(user, videos_to_rate, drawn, n + 1)

\* Lines 318-330: one user of the loop
RateVideos ==
    /\ gpc = "users"
    /\ gu < Len(gr_users)
    /\ \E num_to_rate \in MinToRate..MaxToRate :
          LET k == IF num_to_rate < Len(gr_videos)
                   THEN num_to_rate ELSE Len(gr_videos)
          IN \E q \in Sample(gr_videos, k) :
                \E drawn \in [1..k -> {0} \cup RatingValues] :
                   ratings_by_user' =
                      ratings_by_user \o
                         UserRatings(gr_users[gu + 1],
                                     [n \in 1..k |-> gr_videos[q[n]]], drawn, 1)
    /\ gu' = gu + 1
    /\ UNCHANGED <<gr_videos, gr_users, video_ratings, gpc>>
    /\ UNCHANGED <<pvars, grest>>

\* sum(ratings_list)
RECURSIVE SumOf(_)
SumOf(ratings_list) ==
    IF ratings_list = <<>> THEN 0
    ELSE Head(ratings_list) + SumOf(Tail(ratings_list))

\* Lines 334-336: ratings_by_video[videoid], the ratings of the video in the
\* order of the detail rows
RatingsOfVideo(ratings, videoid) ==
    LET rows == SelectSeq(ratings, LAMBDA r : r.videoid = videoid)
    IN [n \in DOMAIN rows |-> rows[n].rating]

\* A variant of lines 339-344 with a row for every video handed over
AggregateAllVideos(ratings) ==
    [n \in DOMAIN gr_videos |->
        [videoid |-> gr_videos[n].videoid,
         rating_counter |-> Len(RatingsOfVideo(ratings, gr_videos[n].videoid)),
         rating_total |-> SumOf(RatingsOfVideo(ratings, gr_videos[n].videoid))]]

\* Lines 334-344: one row for each key of ratings_by_video, in the order in
\* which the keys were inserted
Aggregate(ratings) ==
    LET keys == Distinct([n \in DOMAIN ratings |-> ratings[n].videoid], {})
    IN [n \in DOMAIN keys |->
           [videoid |-> keys[n],
            rating_counter |-> Len(RatingsOfVideo(ratings, keys[n])),
            rating_total |-> SumOf(RatingsOfVideo(ratings, keys[n]))]]

\* Lines 332-346: the loop over the users has ended
AggregateRatings ==
    /\ gpc = "users"
    /\ gu = Len(gr_users)
    /\ video_ratings' = Aggregate(ratings_by_user)
    /\ gpc' = "done"
    /\ UNCHANGED <<gr_videos, gr_users, ratings_by_user, gu>>
    /\ UNCHANGED <<pvars, grest>>

GNext == GenerateRatings \/ RateVideos \/ AggregateRatings

InitRatings == PIdle /\ RIdle /\ TIdle /\ OIdle /\ YIdle /\ EIdle /\ GInit

SpecRatings == InitRatings /\ [][GNext]_vars

\* ========================================================================
\* PART 28 - properties of the ratings
\* ========================================================================

DetailRowsOf(videoid) ==
    {n \in DOMAIN ratings_by_user : ratings_by_user[n].videoid = videoid}

RECURSIVE SumOver(_)
SumOver(rows) ==
    IF rows = {} THEN 0
    ELSE LET n == CHOOSE m \in rows : TRUE
         IN ratings_by_user[n].rating + SumOver(rows \ {n})

\* C27: no (userid, videoid) pair occurs twice in the detail rows; and once
\* generate_ratings has returned, video_ratings holds exactly one row for
\* each videoid of the detail rows and none for another video, with
\* rating_counter the number of detail rows of the video and rating_total
\* the sum of their ratings.
C27_AggregateMatchesDetail ==
    /\ \A i, j \in DOMAIN ratings_by_user :
          (/\ ratings_by_user[i].userid = ratings_by_user[j].userid
           /\ ratings_by_user[i].videoid = ratings_by_user[j].videoid) => i = j
    /\ gpc = "done"
          => /\ \A n \in DOMAIN ratings_by_user :
                   Cardinality({m \in DOMAIN video_ratings :
                                   video_ratings[m].videoid =
                                      ratings_by_user[n].videoid}) = 1
             /\ \A m \in DOMAIN video_ratings :
                   /\ DetailRowsOf(video_ratings[m].videoid) # {}
                   /\ video_ratings[m].rating_counter =
                         Cardinality(DetailRowsOf(video_ratings[m].videoid))
                   /\ video_ratings[m].rating_total =
                         SumOver(DetailRowsOf(video_ratings[m].videoid))

\* Witness of C27: two users rated the same video, one of them another
\* video too, and the aggregate rows were built: two ratings for the one
\* video, one for the other
C27_Witness ==
    /\ gpc = "done"
    /\ Len(ratings_by_user) = 3
    /\ Len(video_ratings) = 2
    /\ \E m \in DOMAIN video_ratings :
          /\ video_ratings[m].rating_counter = 2
          /\ video_ratings[m].rating_total = 8
    /\ \E m \in DOMAIN video_ratings : video_ratings[m].rating_counter = 1

====
